---- MODULE Spec2Model ----
(***************************************************************************)
(* Go-Promise (package promise): the settlement core of Promise[T], its    *)
(* handler list, Then/Catch/Finally and Await, modelled at the granularity *)
(* of the shared-memory accesses of promise.go.  Every goroutine is a call *)
(* stack of frames; one action is one step of one function of the source.  *)
(***************************************************************************)
EXTENDS Integers, Sequences, FiniteSets, TLC

\* ---------------------------------------------------------------- bounds
\* Number of goroutines that call Await on the source.
NumAwaiters == 2
\* Number of concurrent activities (settling calls, chained calls, waiters) of
\* a scenario.
MaxWork == 3
\* Number of promises passed to an aggregator.
NumInputs == 2
\* The number of registrations and attachments made on one pending promise.
MaxOps == 3

\* ------------------------------------------------------- program constants
Pending == 0
Fulfilled == 1
Rejected == 2

\* The number of Then calls of TestPromise_ExecutionOrder_FIFO (A, B, C), which
\* is also the largest number of calls a client program of the model chains on
\* the source.
FifoLen == 3
MaxRegs == FifoLen

\* The nil error, the zero value of T (int), context.Canceled.
NilErr == "nil"
ZeroVal == 0
ctxCanceled == "context canceled"

\* sync.Mutex unlocked.
Free == <<"free", 0>>

\* ------------------------------------------------------------- identities
\* The source promise and the children returned by the i-th Then/Finally call.
P0 == 1
Child(i) == 1 + i
Children == {Child(i) : i \in 1..MaxRegs}
\* The promises passed to All/Any/Race/AllSettled, and the promise that an
\* aggregator or Timeout returns.
In(i) == 1 + MaxRegs + i
Inputs == {In(i) : i \in 1..NumInputs}
Cmb == 2 + MaxRegs + NumInputs
Promises == {P0} \cup Children \cup Inputs \cup {Cmb}

\* Goroutines: the client, the executor of New, a goroutine the executor
\* spawned, the executor of each child (registration), the awaiters.
Main == <<"main", 0>>
Exec == <<"exec", 0>>
Ext == <<"ext", 0>>
Reg(i) == <<"reg", i>>
Aw(j) == <<"aw", j>>
Regs == {Reg(i) : i \in 1..MaxRegs}
Awaiters == {Aw(j) : j \in 1..NumAwaiters}
\* The executor of the promise an aggregator or Timeout returns, and the
\* executor of each input.
Agg == <<"agg", 0>>
Set(i) == <<"set", i>>
Setters == {Set(i) : i \in 1..NumInputs}
\* The goroutine NewWithContext starts to watch ctx.Done().
Watch == <<"watch", 0>>
Threads == {Main, Exec, Ext, Agg, Watch} \cup Regs \cup Awaiters \cup Setters

\* context.Background() is context 0; awaiter j owns context j.
Background == 0
Contexts == 0..NumAwaiters
\* The context passed to NewWithContext (its awaiter uses Background).
PCtx == 1

VARIABLES
  state,     \* Promise.state
  val,       \* Promise.val
  err,       \* Promise.err
  handlers,  \* Promise.handlers: the linked list, head first
  signal,    \* Promise.signal: "nil", "open" or "closed"
  mu,        \* Promise.mu: Free or the goroutine that holds it
  stack,     \* call stack of every goroutine, innermost frame last
  ctxDone,   \* ctx.Done() closed, per context
  scen,      \* the client program: how P0 is made, who settles it, what is chained
  order,     \* history: the handle invocations, in order
  obs,       \* history: what the handle of each child read from its source
  regd,      \* history: how each child's handle was registered
  callAt,    \* history: the source's state when the client called Then
  results,   \* history: what each Await call returned, per awaiter
  vals,      \* Promise.val of a promise of slices (Promise[[]T])
  pending,   \* aggregators: var pending int32
  doneFlag,  \* aggregators: var doneFlag int32 (successFlag in Any)
  aggResults,\* aggregators: the results slice
  timerC,    \* Timeout: the timer, "idle", "armed", "fired" or "stopped"
  settleOrder, \* history: the inputs in the order their state was stored
  doneBy,    \* history: the inputs whose handler took the flag, in order
  timerAt,   \* history: the state of the source when the timer fired
  calls,     \* history: the resolve/reject calls an aggregator made
  done,      \* NewWithContext: the guard channel, "nil", "open" or "closed"
  passed,    \* history: the paths that went past the guard's select
  fault,     \* history: the goroutines that closed the closed guard channel
  mapperCalls, \* history: the values the mapper of Map was called with
  tail       \* Promise.handlersTail of the tail-insertion version, NoCl for nil

vars == <<state, val, err, handlers, signal, mu, stack, ctxDone, scen,
          order, obs, regd, callAt, results,
          vals, pending, doneFlag, aggResults, timerC, settleOrder, doneBy, timerAt,
          calls, done, passed, fault, mapperCalls, tail>>

promiseVars == <<state, val, err, handlers, signal, mu>>
histVars == <<order, obs, regd, callAt, results>>
ctxVars == <<done, passed, fault, mapperCalls, tail>>
aggVars == <<pending, doneFlag, aggResults, timerC, doneBy, timerAt, calls, ctxVars>>

\* ------------------------------------------------------------------ frames
NoPanic == [isErr |-> FALSE, s |-> ""]
NoCl == [kind |-> "none", src |-> 0, child |-> 0, onF |-> "nil", onR |-> "nil"]

F0 == [op |-> "", pc |-> "", p |-> 0, v |-> 0, e |-> NilErr, cl |-> NoCl,
       hs |-> <<>>, i |-> 1, cs |-> Pending, ctx |-> Background, at0 |-> Pending,
       via |-> "", script |-> <<>>, vs |-> <<>>]

Top(t) == stack[t][Len(stack[t])]
Running(t, op) == Len(stack[t]) > 0 /\ Top(t).op = op
At(t, op, pc) == Running(t, op) /\ Top(t).pc = pc

\* The stack of t with its innermost frame replaced, removed, or called from.
SetTop(t, f) == [stack EXCEPT ![t] = [@ EXCEPT ![Len(@)] = f]]
Pop(t) == [stack EXCEPT ![t] = SubSeq(@, 1, Len(@) - 1)]
Call(t, f, g) == [stack EXCEPT ![t] = Append([@ EXCEPT ![Len(@)] = f], g)]
\* A call in tail position (the caller only returns after it): the callee's
\* frame takes the caller's place.
TailCall(t, g) == SetTop(t, g)

ResolveFrame(p, v) == [F0 EXCEPT !.op = "Resolve", !.pc = "check", !.p = p, !.v = v]
ResolveSliceFrame(p, vs) == [ResolveFrame(p, ZeroVal) EXCEPT !.vs = vs]
RejectFrame(p, e) == [F0 EXCEPT !.op = "Reject", !.pc = "check", !.p = p, !.e = e]

\* ------------------------------------------------------------- config.go
\* handlePanic: err, ok := r.(error); if !ok { err = fmt.Errorf("panic: %v", r) }
handlePanicErr_bare(r) == r.s
handlePanicErr(r) == IF r.isErr THEN r.s ELSE "panic: " \o r.s

\* ------------------------------------------------------------ promise.go
GetState(p) == state[p]

\* doResolve/doReject: the re-check of the state under the lock.
SettleGuard_skip(p) == TRUE
SettleGuard(p) == state[p] = Pending

\* close(p.signal) when a waiter created it.
CloseSignal_skip(s) == s
CloseSignal(s) == IF s # "nil" THEN "closed" ELSE s

\* doResolve/doReject: p.mu.Unlock() before p.runHandlers(h).
Unlock_deferred(t) == t
Unlock(t) == Free

\* Resolve: the lock-free check, then doResolve.
Resolve(t) ==
  /\ At(t, "Resolve", "check")
  /\ stack' = IF GetState(Top(t).p) # Pending
                THEN Pop(t)
                ELSE SetTop(t, [Top(t) EXCEPT !.op = "doResolve", !.pc = "lock"])
  /\ UNCHANGED <<promiseVars, ctxDone, scen, aggVars, vals, settleOrder, histVars>>

\* Reject: the lock-free check, then doReject.
Reject(t) ==
  /\ At(t, "Reject", "check")
  /\ stack' = IF GetState(Top(t).p) # Pending
                THEN Pop(t)
                ELSE SetTop(t, [Top(t) EXCEPT !.op = "doReject", !.pc = "lock"])
  /\ UNCHANGED <<promiseVars, ctxDone, scen, aggVars, vals, settleOrder, histVars>>

\* The critical section shared by doResolve and doReject, one memory access
\* per step: lock and re-check (the state cannot change while the lock is
\* held), unlock and return when it is settled, otherwise store the value or
\* the error, store the state,
\* detach the list and close the signal and unlock, then runHandlers(h).
\* p.handlers = nil
Detach_keep(list) == list
Detach(list) == <<>>

\* The order of the stores of the critical section: p.val = val (p.err = err),
\* then atomic.StoreUint32(&p.state, ..), then the detaching of the list.
SettlePc_stateFirst(pc) ==
  CASE pc = "lock" -> "publish" [] pc = "publish" -> "store" [] OTHER -> "detach"
SettlePc(pc) ==
  CASE pc = "lock" -> "store" [] pc = "store" -> "publish" [] OTHER -> "detach"

doSettle(t, op) ==
  LET f == Top(t)
      p == f.p
  IN /\ Running(t, op)
     /\ \/ /\ f.pc = "lock"
           /\ mu[p] = Free
           /\ mu' = [mu EXCEPT ![p] = t]
           /\ stack' = SetTop(t, [f EXCEPT !.pc = IF SettleGuard(p) THEN SettlePc("lock") ELSE "unlock"])
           /\ UNCHANGED <<state, val, err, handlers, signal, vals, settleOrder>>
        \/ /\ f.pc = "unlock"
           /\ mu' = [mu EXCEPT ![p] = Free]
           /\ stack' = Pop(t)
           /\ UNCHANGED <<state, val, err, handlers, signal, vals, settleOrder>>
        \/ /\ f.pc = "store"
           /\ IF op = "doResolve"
                THEN /\ val' = [val EXCEPT ![p] = f.v]
                     /\ vals' = [vals EXCEPT ![p] = f.vs]
                     /\ err' = err
                ELSE /\ err' = [err EXCEPT ![p] = f.e]
                     /\ UNCHANGED <<val, vals>>
           /\ stack' = SetTop(t, [f EXCEPT !.pc = SettlePc("store")])
           /\ UNCHANGED <<state, handlers, signal, mu, settleOrder>>
        \/ /\ f.pc = "publish"
           /\ state' = [state EXCEPT ![p] = IF op = "doResolve" THEN Fulfilled ELSE Rejected]
           /\ settleOrder' = IF p \in Inputs THEN Append(settleOrder, p) ELSE settleOrder
           /\ stack' = SetTop(t, [f EXCEPT !.pc = SettlePc("publish")])
           /\ UNCHANGED <<val, err, handlers, signal, mu, vals>>
        \/ /\ f.pc = "detach"
           /\ handlers' = [handlers EXCEPT ![p] = Detach(@)]
           /\ signal' = [signal EXCEPT ![p] = CloseSignal(@)]
           /\ mu' = [mu EXCEPT ![p] = Unlock(t)]
           /\ stack' = IF handlers[p] = <<>>
                         THEN Pop(t)
                         ELSE TailCall(t, [F0 EXCEPT !.op = "runHandlers", !.p = p,
                                                     !.hs = handlers[p], !.i = 1])
           /\ UNCHANGED <<state, val, err, vals, settleOrder>>
     /\ UNCHANGED <<ctxDone, scen, aggVars, histVars>>

doResolve(t) == doSettle(t, "doResolve")
doReject(t) == doSettle(t, "doReject")

\* --------------------------------------------------------------- New
\* The closure New hands to the dispatcher: defer handlePanic(p.Reject), then
\* the executor, here a script of resolve, reject and panic calls.
New(t) ==
  LET f == Top(t)
  IN /\ Running(t, "New")
     /\ f.i <= Len(f.script)
     /\ LET s == f.script[f.i]
            g == CASE s.k = "res" -> ResolveFrame(f.p, s.v)
                   [] s.k = "rej" -> RejectFrame(f.p, s.e)
                   [] OTHER -> RejectFrame(f.p, handlePanicErr(s.r))
        IN stack' = IF f.i = Len(f.script) \/ s.k = "panic"
                      THEN TailCall(t, g)
                      ELSE Call(t, [f EXCEPT !.i = @ + 1], g)
     /\ UNCHANGED <<promiseVars, ctxDone, scen, aggVars, vals, settleOrder, histVars>>

\* ------------------------------------------------------- NewWithContext
\* The runtime error of close(done) on a closed channel.
ClosedPanic == [isErr |-> TRUE, s |-> "close of closed channel"]

SafeFrame(op, v, e) ==
  [F0 EXCEPT !.op = op, !.pc = "select", !.p = P0, !.v = v, !.e = e,
             !.via = IF ctxDone[PCtx] THEN "cancelled" ELSE "live"]

\* The closure NewWithContext hands to the dispatcher: defer
\* handlePanic(p.Reject); done := make(chan struct{}); the watcher goroutine
\* is started; then the executor, a script of safeResolve, safeReject and
\* panic calls.
NewWithContext(t) ==
  LET f == Top(t)
  IN /\ Running(t, "NewWithContext")
     /\ \/ /\ f.pc = "start"
           /\ done' = "open"
           /\ stack' = [stack EXCEPT
                ![t] = IF f.script = <<>> THEN <<>> ELSE <<[f EXCEPT !.pc = "run"]>>,
                ![Watch] = <<[F0 EXCEPT !.op = "watch", !.p = f.p, !.ctx = f.ctx]>>]
        \/ /\ f.pc = "run"
           /\ f.i <= Len(f.script)
           /\ LET c == f.script[f.i]
                  g == CASE c.k = "res" -> SafeFrame("safeResolve", c.v, NilErr)
                         [] c.k = "rej" -> SafeFrame("safeReject", ZeroVal, c.e)
                         [] OTHER -> RejectFrame(f.p, handlePanicErr(c.r))
              IN stack' = IF c.k = "panic"
                            THEN TailCall(t, g)
                            ELSE Call(t, [f EXCEPT !.i = @ + 1], g)
           /\ done' = done
        \/ /\ f.pc = "run"
           /\ f.i > Len(f.script)
           /\ stack' = Pop(t)
           /\ done' = done
     /\ UNCHANGED <<promiseVars, ctxDone, scen, pending, doneFlag, aggResults, timerC, doneBy,
                    timerAt, calls, passed, fault, mapperCalls, tail, vals, settleOrder, histVars>>

\* The guard of safeResolve and safeReject: select { case <-done: return;
\* default: close(done); p.Resolve(v) }. The check and the close are two
\* steps. Closing the closed channel panics: in the executor's goroutine the
\* deferred handlePanic(p.Reject) recovers it, in the watcher goroutine nothing
\* does and the process ends, with every goroutine and lock in it.
GuardOpen(t) == done # "closed"

safe(t) ==
  LET f == Top(t)
  IN /\ Len(stack[t]) > 0
     /\ f.op \in {"safeResolve", "safeReject"}
     /\ \/ /\ f.pc = "select"
           /\ IF done = "closed"
                THEN stack' = Pop(t) /\ passed' = passed
                ELSE /\ stack' = SetTop(t, [f EXCEPT !.pc = "close"])
                     /\ passed' = Append(passed, [t |-> t, at |-> f.via])
           /\ UNCHANGED <<done, fault, mu>>
        \/ /\ f.pc = "close"
           /\ IF GuardOpen(t)
                THEN /\ done' = "closed"
                     /\ stack' = TailCall(t, IF f.op = "safeResolve"
                                               THEN ResolveFrame(f.p, f.v)
                                               ELSE RejectFrame(f.p, f.e))
                     /\ UNCHANGED <<fault, mu>>
                ELSE /\ done' = done
                     /\ fault' = Append(fault, t)
                     /\ IF t = Watch
                          THEN /\ stack' = [u \in Threads |-> <<>>]
                               /\ mu' = [p \in Promises |-> Free]
                          ELSE /\ stack' = [stack EXCEPT ![t] =
                                    <<RejectFrame(f.p, handlePanicErr(ClosedPanic))>>]
                               /\ mu' = mu
           /\ passed' = passed
     /\ UNCHANGED <<state, val, err, handlers, signal, ctxDone, scen, pending, doneFlag, aggResults, timerC, doneBy,
                    timerAt, calls, mapperCalls, tail, vals, settleOrder, histVars>>

\* The watcher goroutine: select { case <-ctx.Done(): safeReject(ctx.Err());
\* case <-done: return }.
watch(t) ==
  LET f == Top(t)
  IN /\ Running(t, "watch")
     /\ \/ /\ ctxDone[f.ctx]
           /\ stack' = TailCall(t, SafeFrame("safeReject", ZeroVal, ctxCanceled))
        \/ /\ done = "closed"
           /\ stack' = Pop(t)
     /\ UNCHANGED <<promiseVars, ctxDone, scen, aggVars, vals, settleOrder, histVars>>

\* ------------------------------------------------------ client callbacks
\* onFulfilled callbacks: "plus10" returns v + 10, "boom" panics.
onFulfilled(cb, v) ==
  IF cb = "boom" THEN [panic |-> TRUE, v |-> ZeroVal, r |-> [isErr |-> FALSE, s |-> "boom"]]
                 ELSE [panic |-> FALSE, v |-> v + 10, r |-> NoPanic]

\* onRejected callbacks: "wrap" returns a new error, "retnil" returns nil,
\* "boom" panics.
onRejected(cb, e) ==
  CASE cb = "boom" -> [panic |-> TRUE, e |-> NilErr, r |-> [isErr |-> FALSE, s |-> "boom"]]
    [] cb = "retnil" -> [panic |-> FALSE, e |-> NilErr, r |-> NoPanic]
    [] OTHER -> [panic |-> FALSE, e |-> "wrap(" \o e \o ")", r |-> NoPanic]

\* onFinally callbacks: "ok" returns, "boom" panics with an error value.
onFinally(cb) ==
  IF cb = "boom" THEN [panic |-> TRUE, r |-> [isErr |-> TRUE, s |-> "finally failed"]]
                 ELSE [panic |-> FALSE, r |-> NoPanic]

\* ------------------------------------------------------- Then / Finally
\* The closures Then, Catch and Finally register on their source.
ThenCl(src, child, onF, onR) ==
  [kind |-> "then", src |-> src, child |-> child, onF |-> onF, onR |-> onR]
CatchCl(src, child, onR) == ThenCl(src, child, "nil", onR)
FinallyCl(src, child, fin) ==
  [kind |-> "finally", src |-> src, child |-> child, onF |-> fin, onR |-> "nil"]

HandleFrame(cl) ==
  [F0 EXCEPT !.op = CASE cl.kind = "then" -> "handle"
                      [] cl.kind = "finally" -> "handleFinally"
                      [] cl.kind = "timeout" -> "timeoutHandle"
                      [] cl.kind = "map" -> "mapHandle"
                      [] OTHER -> "handler",
             !.pc = "enter", !.cl = cl]

\* What Then's handle does with the state it read: the call it makes on the
\* child. The deferred handlePanic(reject) turns a callback's panic into a
\* reject of the child.
handleCall_recover(cl, cs) ==
  IF cs = Fulfilled
    THEN IF cl.onF # "nil"
           THEN LET r == onFulfilled(cl.onF, val[cl.src])
                IN IF r.panic THEN RejectFrame(cl.child, handlePanicErr(r.r))
                              ELSE ResolveFrame(cl.child, r.v)
           ELSE ResolveFrame(cl.child, val[cl.src])
    ELSE IF cl.onR # "nil"
           THEN LET r == onRejected(cl.onR, err[cl.src])
                IN IF r.panic THEN RejectFrame(cl.child, handlePanicErr(r.r))
                              ELSE ResolveFrame(cl.child, ZeroVal)
           ELSE RejectFrame(cl.child, err[cl.src])
handleCall_inplace(cl, cs) ==
  IF cs = Fulfilled
    THEN IF cl.onF # "nil"
           THEN LET r == onFulfilled(cl.onF, val[cl.src])
                IN IF r.panic THEN RejectFrame(cl.child, handlePanicErr(r.r))
                              ELSE [F0 EXCEPT !.op = "doResolve", !.pc = "store",
                                              !.p = cl.src, !.v = r.v]
           ELSE ResolveFrame(cl.child, val[cl.src])
    ELSE IF cl.onR # "nil"
           THEN LET r == onRejected(cl.onR, err[cl.src])
                IN IF r.panic THEN RejectFrame(cl.child, handlePanicErr(r.r))
                              ELSE [F0 EXCEPT !.op = "doReject", !.pc = "store",
                                              !.p = cl.src, !.e = r.e]
           ELSE RejectFrame(cl.child, err[cl.src])
handleCall_swallow(cl, cs) ==
  IF cs = Fulfilled
    THEN IF cl.onF # "nil"
           THEN LET r == onFulfilled(cl.onF, val[cl.src])
                IN ResolveFrame(cl.child, r.v)
           ELSE ResolveFrame(cl.child, val[cl.src])
    ELSE IF cl.onR # "nil"
           THEN LET r == onRejected(cl.onR, err[cl.src])
                IN RejectFrame(cl.child, r.e)
           ELSE RejectFrame(cl.child, err[cl.src])
handleCall(cl, cs) ==
  IF cs = Fulfilled
    THEN IF cl.onF # "nil"
           THEN LET r == onFulfilled(cl.onF, val[cl.src])
                IN IF r.panic THEN RejectFrame(cl.child, handlePanicErr(r.r))
                              ELSE ResolveFrame(cl.child, r.v)
           ELSE ResolveFrame(cl.child, val[cl.src])
    ELSE IF cl.onR # "nil"
           THEN LET r == onRejected(cl.onR, err[cl.src])
                IN IF r.panic THEN RejectFrame(cl.child, handlePanicErr(r.r))
                              ELSE RejectFrame(cl.child, r.e)
           ELSE RejectFrame(cl.child, err[cl.src])

\* handle of Then: read the source's state, then call the matching callback
\* and settle the child; in state Pending it does nothing.
handle(t) ==
  LET f == Top(t)
      cl == f.cl
  IN /\ Running(t, "handle")
     /\ \/ /\ f.pc = "enter"
           /\ stack' = SetTop(t, [f EXCEPT !.pc = "call", !.cs = GetState(cl.src)])
           /\ order' = Append(order, [c |-> cl.child, t |-> t])
           /\ obs' = obs
        \/ /\ f.pc = "call"
           /\ IF f.cs = Pending
                THEN stack' = Pop(t)
                ELSE stack' = TailCall(t, handleCall(cl, f.cs))
           /\ obs' = [obs EXCEPT ![cl.child] =
                        [cs |-> f.cs, v |-> val[cl.src], e |-> err[cl.src]]]
           /\ order' = order
     /\ UNCHANGED <<promiseVars, ctxDone, scen, aggVars, vals, settleOrder, regd, callAt, results>>

\* What Finally's handle does after onFinally() returned: it forwards the
\* source's outcome to the child.
finallyCall_swallow(cl) == ResolveFrame(cl.child, val[cl.src])
finallyCall(cl) ==
  IF GetState(cl.src) = Fulfilled
    THEN ResolveFrame(cl.child, val[cl.src])
    ELSE RejectFrame(cl.child, err[cl.src])

\* handle of Finally: onFinally(), then forward the source's outcome.
handleFinally(t) ==
  LET f == Top(t)
      cl == f.cl
  IN /\ Running(t, "handleFinally")
     /\ \/ /\ f.pc = "enter"
           /\ order' = Append(order, [c |-> cl.child, t |-> t])
           /\ obs' = obs
           /\ LET r == onFinally(cl.onF)
              IN IF r.panic
                   THEN stack' = TailCall(t, RejectFrame(cl.child, handlePanicErr(r.r)))
                   ELSE stack' = SetTop(t, [f EXCEPT !.pc = "call"])
        \/ /\ f.pc = "call"
           /\ stack' = TailCall(t, finallyCall(cl))
           /\ obs' = [obs EXCEPT ![cl.child] =
                        [cs |-> GetState(cl.src), v |-> val[cl.src], e |-> err[cl.src]]]
           /\ order' = order
     /\ UNCHANGED <<promiseVars, ctxDone, scen, aggVars, vals, settleOrder, regd, callAt, results>>

\* runHandlers: the func literal around fn() with its deferred recover; the loop
\* goes on to current.next whatever fn() did.
Recover_none(cl) == cl.onF # "boom" /\ cl.onR # "boom"
Recover(cl) == TRUE

\* runHandlers: call every node's fn in list order, each under recover, then
\* give the chain back to the pool.
runHandlers(t) ==
  LET f == Top(t)
  IN /\ Running(t, "runHandlers")
     /\ stack' = IF f.i < Len(f.hs) /\ Recover(f.hs[f.i])
                   THEN Call(t, [f EXCEPT !.i = @ + 1], HandleFrame(f.hs[f.i]))
                   ELSE TailCall(t, HandleFrame(f.hs[f.i]))
     /\ UNCHANGED <<promiseVars, ctxDone, scen, aggVars, vals, settleOrder, histVars>>

\* node.next = p.handlers; p.handlers = node
Insert(node, list) == <<node>> \o list

\* Then/Finally: the re-check of the source's state under the lock.
RegisterGuard_skip(p) == TRUE
RegisterGuard(p) == state[p] = Pending

\* Then/Finally: the lock-free check of the source's state.
FastPath_never(p) == FALSE
FastPath(p) == GetState(p) # Pending

\* Then/Finally: where the executor continues after handle() on the fast path
\* (it returns).
FastPathNext_fallthrough == "slow"
FastPathNext == "ret"

\* The executor of the child made by Then or Finally: run handle() at once when
\* the source is settled, otherwise lock, re-check and insert a node.
Register(t, op) ==
  LET f == Top(t)
      cl == f.cl
      c == cl.child
  IN /\ Running(t, op)
     /\ \/ /\ f.pc = "fast"
           /\ IF FastPath(cl.src)
                THEN /\ stack' = IF FastPathNext = "ret"
                                  THEN TailCall(t, HandleFrame(cl))
                                  ELSE Call(t, [f EXCEPT !.pc = FastPathNext], HandleFrame(cl))
                     /\ regd' = [regd EXCEPT ![c] = Append(@, "direct-fast")]
                ELSE /\ stack' = SetTop(t, [f EXCEPT !.pc = "slow"])
                     /\ regd' = regd
           /\ handlers' = handlers
        \/ /\ f.pc = "slow"
           /\ mu[cl.src] = Free
           /\ IF ~RegisterGuard(cl.src)
                THEN /\ stack' = TailCall(t, HandleFrame(cl))
                     /\ regd' = [regd EXCEPT ![c] = Append(@, "direct-slow")]
                     /\ handlers' = handlers
                ELSE /\ stack' = Pop(t)
                     /\ regd' = [regd EXCEPT ![c] = Append(@, "queued")]
                     /\ handlers' = [handlers EXCEPT ![cl.src] = Insert(cl, @)]
     /\ UNCHANGED <<state, val, err, signal, mu, ctxDone, scen, aggVars, vals, settleOrder, order, obs, callAt, results>>

Then(t) == Register(t, "Then")
Finally(t) == Register(t, "Finally")

\* ----------------------------------------------------------------- Await
\* History: the children whose handle has executed its body so far.
Ran == {c \in Children : obs[c].cs # Pending}

\* What Await returns on each of its return statements.
AwaitReturn_noerr(pc, p) == <<val[p], NilErr>>
AwaitReturn(pc, p) ==
  IF pc = "readval" THEN <<val[p], NilErr>> ELSE <<ZeroVal, err[p]>>

\* The select of Await: either case that is ready may be taken. The
\* ctx.Done() case returns ctx.Err() and touches nothing of the promise.
AwaitSelect_settles(t) ==
  LET f == Top(t)
  IN /\ At(t, "Await", "select")
     /\ \/ /\ ctxDone[f.ctx]
           /\ stack' = Pop(t)
           /\ results' = [results EXCEPT ![t] = Append(@,
                 [v |-> ZeroVal, e |-> ctxCanceled, via |-> "cancel", at0 |-> f.at0,
                  st |-> state[f.p], cd |-> ctxDone[f.ctx],
                  ran |-> Ran])]
           /\ state' = [state EXCEPT ![f.p] = Rejected]
           /\ err' = [err EXCEPT ![f.p] = ctxCanceled]
        \/ /\ signal[f.p] = "closed"
           /\ stack' = SetTop(t, [f EXCEPT !.pc = "woke", !.via = "signal"])
           /\ UNCHANGED <<results, state, err>>
     /\ UNCHANGED <<val, handlers, signal, mu>>
AwaitSelect(t) ==
  LET f == Top(t)
  IN /\ At(t, "Await", "select")
     /\ \/ /\ ctxDone[f.ctx]
           /\ stack' = Pop(t)
           /\ results' = [results EXCEPT ![t] = Append(@,
                 [v |-> ZeroVal, e |-> ctxCanceled, via |-> "cancel", at0 |-> f.at0,
                  st |-> state[f.p], cd |-> ctxDone[f.ctx],
                  ran |-> Ran])]
        \/ /\ signal[f.p] = "closed"
           /\ stack' = SetTop(t, [f EXCEPT !.pc = "woke", !.via = "signal"])
           /\ results' = results
     /\ UNCHANGED promiseVars

\* Await: the lock-free fast path, the re-check under the lock with the lazy
\* creation of the signal, the select, and the reads after the wake-up.
Await(t) ==
  LET f == Top(t)
      p == f.p
      next(s) == IF s = Fulfilled THEN "readval" ELSE "readerr"
  IN /\ Running(t, "Await")
     /\ \/ /\ f.pc = "fast"
           /\ stack' = SetTop(t, IF GetState(p) # Pending
                                   THEN [f EXCEPT !.pc = next(GetState(p)), !.via = "fast"]
                                   ELSE [f EXCEPT !.pc = "lock"])
           /\ UNCHANGED <<promiseVars, results>>
        \/ /\ f.pc = "lock"
           /\ mu[p] = Free
           /\ IF state[p] # Pending
                THEN /\ stack' = SetTop(t, [f EXCEPT !.pc = next(state[p]), !.via = "locked"])
                     /\ signal' = signal
                ELSE /\ stack' = SetTop(t, [f EXCEPT !.pc = "select"])
                     /\ signal' = [signal EXCEPT ![p] = IF @ = "nil" THEN "open" ELSE @]
           /\ UNCHANGED <<state, val, err, handlers, mu, results>>
        \/ AwaitSelect(t)
        \/ /\ f.pc = "woke"
           /\ stack' = SetTop(t, [f EXCEPT !.pc = next(state[p])])
           /\ UNCHANGED <<promiseVars, results>>
        \/ /\ f.pc \in {"readval", "readerr"}
           /\ stack' = Pop(t)
           /\ results' = [results EXCEPT ![t] = Append(@,
                 [v |-> AwaitReturn(f.pc, p)[1], e |-> AwaitReturn(f.pc, p)[2],
                  via |-> f.via, at0 |-> f.at0, st |-> state[p], cd |-> ctxDone[f.ctx],
                  ran |-> Ran])]
           /\ UNCHANGED promiseVars
     /\ UNCHANGED <<ctxDone, scen, aggVars, vals, settleOrder, order, obs, regd, callAt>>

\* ----------------------------------------------------------- aggregate.go
\* Error messages of Any.
NoPromisesMsg == "aggregate error: no promises"
AllRejectedMsg == "aggregate error: all promises rejected"

\* The handler closure an aggregator attaches to its i-th input, and the index
\* it captured.
AggCl(kind, i) == [kind |-> kind, src |-> In(i), child |-> Cmb, onF |-> "nil", onR |-> "nil"]
Idx(cl) == cl.src - In(0)

\* All: results[idx] = target.val
Slot_arrival(idx) == Len(scen.ins) - pending + 1
Slot(idx) == idx

\* All: what the handler does for a Rejected target (it rejects at once).
AllOnRejected_count == "count"
AllOnRejected == "reject"

\* Any: if atomic.AddInt32(&pending, -1) == 0
AnyAllRejected_first(n) == TRUE
AnyAllRejected(n) == n = 0

\* Race: resolve(target.val) or reject(target.err)
raceCall_swallow(cl) == ResolveFrame(cl.child, val[cl.src])
raceCall(cl) ==
  IF state[cl.src] = Fulfilled
    THEN ResolveFrame(cl.child, val[cl.src])
    ELSE RejectFrame(cl.child, err[cl.src])

\* AllSettled: the SettledResult record of a settled target, and the zero
\* record of make([]SettledResult[T], count).
ZeroResult == [Status |-> Pending, Value |-> ZeroVal, Reason |-> NilErr]
SettledResult_fulfilled(p) == [Status |-> Fulfilled, Value |-> val[p], Reason |-> NilErr]
SettledResult(p) ==
  IF state[p] = Fulfilled
    THEN [Status |-> Fulfilled, Value |-> val[p], Reason |-> NilErr]
    ELSE [Status |-> Rejected, Value |-> ZeroVal, Reason |-> err[p]]

\* The calls of resolve and reject an aggregator has made, after a step of t
\* that may have made one.
CallsAfter(t) ==
  LET s == stack'[t]
  IN IF s # <<>> /\ s[Len(s)].op \in {"Resolve", "Reject"} /\ s[Len(s)].p = Cmb
       THEN Append(calls, s[Len(s)].op)
       ELSE calls

\* The executor of All, Any, Race and AllSettled: the zero-input case and the
\* shared counters, then for each input the lock-free check (handler() at once
\* when the input is settled), and the lock, re-check and head insertion.
\* What an aggregator's executor calls when len(promises) == 0: All and
\* AllSettled resolve with an empty slice, Any rejects, and Race, whose loop has
\* nothing to range over, calls nothing (the frame F0).
EmptyInput_reject(op) ==
  CASE op \in {"All", "AllSettled"} -> ResolveSliceFrame(Cmb, <<>>)
    [] OTHER -> RejectFrame(Cmb, NoPromisesMsg)
EmptyInput(op) ==
  CASE op \in {"All", "AllSettled"} -> ResolveSliceFrame(Cmb, <<>>)
    [] op = "Any" -> RejectFrame(Cmb, NoPromisesMsg)
    [] OTHER -> F0

Aggregate(t, op) ==
  LET f == Top(t)
      n == Len(scen.ins)
      cl == AggCl(op, f.i)
      target == In(f.i)
      direct == IF f.i < n
                  THEN Call(t, [f EXCEPT !.i = @ + 1, !.pc = "fast"], HandleFrame(cl))
                  ELSE TailCall(t, HandleFrame(cl))
      next == IF f.i < n THEN SetTop(t, [f EXCEPT !.i = @ + 1, !.pc = "fast"]) ELSE Pop(t)
  IN /\ Running(t, op)
     /\ \/ /\ f.pc = "start"
           /\ pending' = IF op = "Race" THEN pending ELSE n
           /\ doneFlag' = 0
           /\ aggResults' = CASE n > 0 /\ op = "All" -> [i \in 1..n |-> ZeroVal]
                              [] n > 0 /\ op = "AllSettled" -> [i \in 1..n |-> ZeroResult]
                              [] OTHER -> <<>>
           /\ stack' = CASE n > 0 -> SetTop(t, [f EXCEPT !.pc = "fast", !.i = 1])
                         [] n = 0 /\ EmptyInput(op) # F0 -> TailCall(t, EmptyInput(op))
                         [] OTHER -> Pop(t)
           /\ handlers' = handlers
        \/ /\ f.pc = "fast"
           /\ stack' = IF GetState(target) # Pending
                         THEN direct
                         ELSE SetTop(t, [f EXCEPT !.pc = "slow"])
           /\ UNCHANGED <<handlers, pending, doneFlag, aggResults>>
        \/ /\ f.pc = "slow"
           /\ mu[target] = Free
           /\ IF state[target] # Pending
                THEN stack' = direct /\ handlers' = handlers
                ELSE stack' = next /\ handlers' = [handlers EXCEPT ![target] = Insert(cl, @)]
           /\ UNCHANGED <<pending, doneFlag, aggResults>>
     /\ calls' = CallsAfter(t)
     /\ UNCHANGED <<state, val, err, signal, mu, vals, ctxDone, scen, timerC, doneBy,
                    timerAt, settleOrder, histVars, ctxVars>>

All(t) == Aggregate(t, "All")
\* (Any is an operator of the TLC module, hence the name.)
AnyAgg(t) == Aggregate(t, "Any")
Race(t) == Aggregate(t, "Race")
AllSettled(t) == Aggregate(t, "AllSettled")

\* atomic.CompareAndSwapInt32(&doneFlag, 0, 1): whether it swaps.
CompareAndSwap_always(flag) == TRUE
CompareAndSwap(flag) == flag = 0

\* The handler closures of the aggregators, one shared-memory access per step
\* (a write of results[idx] is merged with the decrement of pending that
\* follows it: nobody reads the slice before pending is 0).
handler(t) ==
  LET f == Top(t)
      cl == f.cl
      target == cl.src
      idx == Idx(cl)
      take == /\ doneFlag' = 1
              /\ doneBy' = Append(doneBy, idx)
  IN /\ Running(t, "handler")
     /\ \/ /\ cl.kind = "All"
           /\ \/ /\ f.pc = "enter"
                 /\ IF state[target] = Fulfilled \/ AllOnRejected = "count"
                      THEN /\ stack' = IF doneFlag = 1 THEN Pop(t)
                                       ELSE SetTop(t, [f EXCEPT !.pc = "count"])
                           /\ UNCHANGED <<doneFlag, doneBy>>
                      ELSE IF CompareAndSwap(doneFlag)
                             THEN take /\ stack' = TailCall(t, RejectFrame(Cmb, err[target]))
                             ELSE stack' = Pop(t) /\ UNCHANGED <<doneFlag, doneBy>>
                 /\ UNCHANGED <<pending, aggResults>>
              \/ /\ f.pc = "count"
                 /\ aggResults' = [aggResults EXCEPT ![Slot(idx)] = val[target]]
                 /\ pending' = pending - 1
                 /\ stack' = IF pending - 1 = 0 THEN SetTop(t, [f EXCEPT !.pc = "cas"])
                                                ELSE Pop(t)
                 /\ UNCHANGED <<doneFlag, doneBy>>
              \/ /\ f.pc = "cas"
                 /\ IF CompareAndSwap(doneFlag)
                      THEN take /\ stack' = TailCall(t, ResolveSliceFrame(Cmb, aggResults))
                      ELSE stack' = Pop(t) /\ UNCHANGED <<doneFlag, doneBy>>
                 /\ UNCHANGED <<pending, aggResults>>
        \/ /\ cl.kind = "Any"
           /\ \/ /\ f.pc = "enter"
                 /\ state[target] = Fulfilled
                 /\ IF CompareAndSwap(doneFlag)
                      THEN take /\ stack' = TailCall(t, ResolveFrame(Cmb, val[target]))
                      ELSE stack' = Pop(t) /\ UNCHANGED <<doneFlag, doneBy>>
                 /\ pending' = pending
              \/ /\ f.pc = "enter"
                 /\ state[target] # Fulfilled
                 /\ pending' = pending - 1
                 /\ stack' = IF AnyAllRejected(pending - 1)
                               THEN SetTop(t, [f EXCEPT !.pc = "load"])
                               ELSE Pop(t)
                 /\ UNCHANGED <<doneFlag, doneBy>>
              \/ /\ f.pc = "load"
                 /\ stack' = IF doneFlag = 0
                               THEN TailCall(t, RejectFrame(Cmb, AllRejectedMsg))
                               ELSE Pop(t)
                 /\ UNCHANGED <<pending, doneFlag, doneBy>>
           /\ aggResults' = aggResults
        \/ /\ cl.kind = "Race"
           /\ IF CompareAndSwap(doneFlag)
                THEN take /\ stack' = TailCall(t, raceCall(cl))
                ELSE stack' = Pop(t) /\ UNCHANGED <<doneFlag, doneBy>>
           /\ UNCHANGED <<pending, aggResults>>
        \/ /\ cl.kind = "AllSettled"
           /\ aggResults' = [aggResults EXCEPT ![idx] = SettledResult(target)]
           /\ pending' = pending - 1
           /\ stack' = IF pending - 1 = 0
                         THEN TailCall(t, ResolveSliceFrame(Cmb, aggResults'))
                         ELSE Pop(t)
           /\ UNCHANGED <<doneFlag, doneBy>>
     /\ calls' = CallsAfter(t)
     /\ UNCHANGED <<promiseVars, vals, ctxDone, scen, timerC, timerAt, settleOrder, histVars,
                    ctxVars>>

\* ------------------------------------------------------------- Timeout
\* errMsg of the README's call p.Timeout(1*time.Second, "operation timeout").
TimeoutMsg == "operation timeout"

\* The closure that the Then call inside Timeout registers on the source: its
\* callbacks try to send on done, settle the returned promise when the send
\* succeeded, and return their argument.
TimeoutCl == [kind |-> "timeout", src |-> P0, child |-> Child(1), onF |-> "nil", onR |-> "nil"]

\* The executor of Timeout: timer := time.NewTimer(d); p.Then(...), which makes
\* the child with New and dispatches its executor; then the select on done and
\* timer.C: it takes timer.C when the timer has fired, and otherwise waits
\* ("wait") until the timer fires or a sender on done meets it (timeoutHandle).
Timeout(t) ==
  LET f == Top(t)
  IN /\ Running(t, "Timeout")
     /\ \/ /\ f.pc = "start"
           /\ timerC' = "armed"
           /\ stack' = SetTop(t, [f EXCEPT !.pc = "then"])
           /\ callAt' = callAt
        \/ /\ f.pc = "then"
           /\ stack' = [stack EXCEPT
                ![t] = <<[f EXCEPT !.pc = "select"]>>,
                ![Reg(1)] = <<[F0 EXCEPT !.op = "Then", !.pc = "fast", !.p = Child(1),
                                         !.cl = TimeoutCl]>>]
           /\ callAt' = [callAt EXCEPT ![Child(1)] = state[P0]]
           /\ timerC' = timerC
        \/ /\ f.pc = "select"
           /\ stack' = IF timerC = "fired"
                          THEN TailCall(t, RejectFrame(Cmb, TimeoutMsg))
                          ELSE SetTop(t, [f EXCEPT !.pc = "wait"])
           /\ UNCHANGED <<timerC, callAt>>
        \/ /\ f.pc = "wait"
           /\ timerC = "fired"
           /\ stack' = TailCall(t, RejectFrame(Cmb, TimeoutMsg))
           /\ UNCHANGED <<timerC, callAt>>
     /\ UNCHANGED <<promiseVars, vals, ctxDone, scen, pending, doneFlag, aggResults, doneBy,
                    timerAt, settleOrder, order, obs, regd, results, calls, ctxVars>>

\* The non-blocking send on the unbuffered channel done succeeds only while the
\* executor of Timeout waits in its select and the timer has not woken it.
SendReady_always == TRUE
SendReady == At(Agg, "Timeout", "wait") /\ timerC # "fired"

\* Then's handle with the callbacks of Timeout: read the source's state; in the
\* callback, select { case done <- struct{}{}: resolve(val)/reject(err);
\* default: }; the callback returns its argument and handle settles the child
\* of Then with it. A successful send lets the executor return, whose deferred
\* timer.Stop() runs.
timeoutHandle(t) ==
  LET f == Top(t)
      cl == f.cl
  IN /\ Running(t, "timeoutHandle")
     /\ \/ /\ f.pc = "enter"
           /\ stack' = SetTop(t, [f EXCEPT !.pc = "send", !.cs = GetState(cl.src)])
           /\ order' = Append(order, [c |-> cl.child, t |-> t])
           /\ UNCHANGED <<obs, timerC>>
        \/ /\ f.pc = "send"
           /\ IF SendReady
                THEN /\ stack' = [stack EXCEPT
                          ![Agg] = <<>>,
                          ![t] = Append([@ EXCEPT ![Len(@)] = [f EXCEPT !.pc = "ret"]],
                                        IF f.cs = Fulfilled
                                          THEN ResolveFrame(Cmb, val[cl.src])
                                          ELSE RejectFrame(Cmb, err[cl.src]))]
                     /\ timerC' = IF timerC = "armed" THEN "stopped" ELSE timerC
                ELSE /\ stack' = SetTop(t, [f EXCEPT !.pc = "ret"])
                     /\ timerC' = timerC
           /\ UNCHANGED <<order, obs>>
        \/ /\ f.pc = "ret"
           /\ stack' = TailCall(t, IF f.cs = Fulfilled
                                     THEN ResolveFrame(cl.child, val[cl.src])
                                     ELSE RejectFrame(cl.child, err[cl.src]))
           /\ obs' = [obs EXCEPT ![cl.child] =
                        [cs |-> f.cs, v |-> val[cl.src], e |-> err[cl.src]]]
           /\ UNCHANGED <<order, timerC>>
     /\ UNCHANGED <<promiseVars, vals, ctxDone, scen, pending, doneFlag, aggResults, doneBy,
                    timerAt, settleOrder, regd, callAt, results, calls, ctxVars>>

\* The timer fires: a value is ready on timer.C.
TimerFire ==
  /\ timerC = "armed"
  /\ timerC' = "fired"
  /\ timerAt' = <<state[P0]>>
  /\ UNCHANGED <<promiseVars, vals, stack, ctxDone, scen, pending, doneFlag, aggResults,
                 doneBy, settleOrder, histVars, calls, ctxVars>>

\* ----------------------------------------------------------------- Map
\* The mappers of the client: "ok" returns (v + 100, nil), "fail" returns
\* (zero, error), "boom" panics.
mapper(cb, v) ==
  CASE cb = "boom" -> [panic |-> TRUE, v |-> ZeroVal, e |-> NilErr,
                       r |-> [isErr |-> FALSE, s |-> "boom"]]
    [] cb = "fail" -> [panic |-> FALSE, v |-> ZeroVal, e |-> "mapper failed", r |-> NoPanic]
    [] OTHER -> [panic |-> FALSE, v |-> v + 100, e |-> NilErr, r |-> NoPanic]

\* The closure that the Then call inside Map registers on the source.
MapCl == [kind |-> "map", src |-> P0, child |-> Child(1), onF |-> scen.mapper, onR |-> "nil"]

\* The executor of Map: p.Then(...), which makes the child with New and
\* dispatches its executor; the executor of Map returns.
Map(t) ==
  /\ Running(t, "Map")
  /\ stack' = [stack EXCEPT
       ![t] = <<>>,
       ![Reg(1)] = <<[F0 EXCEPT !.op = "Then", !.pc = "fast", !.p = Child(1), !.cl = MapCl]>>]
  /\ callAt' = [callAt EXCEPT ![Child(1)] = state[P0]]
  /\ UNCHANGED <<promiseVars, vals, ctxDone, scen, aggVars, settleOrder, order, obs, regd,
                 results>>

\* What the onFulfilled callback of Map does with the mapper's result m:
\* if err != nil { reject(err) } else { resolve(res) }.
MapSettle_resolve(m) == ResolveFrame(Cmb, m.v)
MapSettle(m) == IF m.e # NilErr THEN RejectFrame(Cmb, m.e) ELSE ResolveFrame(Cmb, m.v)

\* Then's handle with the callbacks of Map: read the source's state; for
\* Fulfilled call the mapper and resolve or reject the promise of Map, for
\* Rejected reject it with the source's error; the callback returns its
\* argument and handle settles the child of Then with it. The deferred
\* handlePanic(reject) of handle holds the reject of Then's child.
mapHandle(t) ==
  LET f == Top(t)
      cl == f.cl
      m == mapper(cl.onF, val[cl.src])
  IN /\ Running(t, "mapHandle")
     /\ \/ /\ f.pc = "enter"
           /\ stack' = SetTop(t, [f EXCEPT !.pc = "call", !.cs = GetState(cl.src)])
           /\ order' = Append(order, [c |-> cl.child, t |-> t])
           /\ UNCHANGED <<obs, mapperCalls>>
        \/ /\ f.pc = "call"
           /\ f.cs = Fulfilled
           /\ mapperCalls' = Append(mapperCalls, val[cl.src])
           /\ stack' = IF m.panic
                          THEN TailCall(t, RejectFrame(cl.child, handlePanicErr(m.r)))
                          ELSE Call(t, [f EXCEPT !.pc = "ret"], MapSettle(m))
           /\ UNCHANGED <<order, obs>>
        \/ /\ f.pc = "call"
           /\ f.cs # Fulfilled
           /\ stack' = Call(t, [f EXCEPT !.pc = "ret"], RejectFrame(Cmb, err[cl.src]))
           /\ UNCHANGED <<order, obs, mapperCalls>>
        \/ /\ f.pc = "ret"
           /\ stack' = TailCall(t, IF f.cs = Fulfilled
                                     THEN ResolveFrame(cl.child, val[cl.src])
                                     ELSE RejectFrame(cl.child, err[cl.src]))
           /\ obs' = [obs EXCEPT ![cl.child] =
                        [cs |-> f.cs, v |-> val[cl.src], e |-> err[cl.src]]]
           /\ UNCHANGED <<order, mapperCalls>>
     /\ UNCHANGED <<promiseVars, vals, ctxDone, scen, pending, doneFlag, aggResults, timerC,
                    doneBy, timerAt, calls, done, passed, fault, tail, settleOrder, regd,
                    callAt, results>>

\* ---------------------------------------------------------------- clients
\* The client calls Then, Catch or Finally: each makes the child with New,
\* which dispatches the child's executor as a new goroutine and returns.
Chain(t) ==
  LET f == Top(t)
  IN /\ t = Main
     /\ Running(t, "client")
     /\ f.i <= Len(scen.prog)
     /\ LET it == scen.prog[f.i]
            c == Child(f.i)
            cl == CASE it.m = "Then" -> ThenCl(P0, c, it.onF, it.onR)
                    [] it.m = "Catch" -> CatchCl(P0, c, it.onR)
                    [] OTHER -> FinallyCl(P0, c, it.onF)
        IN /\ stack' = [stack EXCEPT
                ![t] = IF f.i = Len(scen.prog) THEN <<>> ELSE <<[f EXCEPT !.i = @ + 1]>>,
                ![Reg(f.i)] = <<[F0 EXCEPT !.op = IF it.m = "Finally" THEN "Finally" ELSE "Then",
                                          !.pc = "fast", !.p = c, !.cl = cl]>>]
           /\ callAt' = [callAt EXCEPT ![c] = state[P0]]
     /\ UNCHANGED <<promiseVars, ctxDone, scen, aggVars, vals, settleOrder, order, obs, regd, results>>

\* A waiting goroutine: it calls p.Await(ctx), and when that returned the
\* context's error it calls p.Await(context.Background()).
Waiter(t) ==
  LET f == Top(t)
      n == Len(results[t])
  IN /\ Running(t, "waiter")
     /\ stack' =
          IF n = 0 \/ (n = 1 /\ results[t][1].via = "cancel")
            THEN Call(t, f, [F0 EXCEPT !.op = "Await", !.pc = "fast", !.p = f.p,
                                       !.ctx = IF n = 0 THEN f.ctx ELSE Background,
                                       !.at0 = state[f.p]])
            ELSE Pop(t)
     /\ UNCHANGED <<promiseVars, ctxDone, scen, aggVars, vals, settleOrder, histVars>>

\* The client cancels the context of awaiter j.
Cancel(j) ==
  /\ scen.aw[j] \in {"ctx", "agg"} \/ (scen.make = "NewWithContext" /\ j = PCtx)
  /\ ~ctxDone[j]
  /\ ctxDone' = [ctxDone EXCEPT ![j] = TRUE]
  /\ UNCHANGED <<promiseVars, stack, scen, aggVars, vals, settleOrder, histVars>>

\* --------------------------------------------------------------- programs
res(v) == [k |-> "res", v |-> v, e |-> NilErr, r |-> NoPanic]
rej(e) == [k |-> "rej", v |-> ZeroVal, e |-> e, r |-> NoPanic]
pan(isErr, s) == [k |-> "panic", v |-> ZeroVal, e |-> NilErr, r |-> [isErr |-> isErr, s |-> s]]

\* Executors of New: they resolve, reject, panic("boom"), panic(errors.New(..)),
\* settle twice, or never settle.
ExecScripts ==
  { <<>>, <<res(1)>>, <<rej("e1")>>, <<pan(FALSE, "boom")>>, <<pan(TRUE, "bad")>>,
    <<res(1), rej("e3")>>, <<rej("e1"), res(3)>>, <<res(1), pan(FALSE, "boom")>> }

\* Another goroutine that calls p.Resolve or p.Reject.
ExtScripts == { <<>>, <<res(2)>>, <<rej("e2")>> }

item(m, onF, onR) == [m |-> m, onF |-> onF, onR |-> onR]
Items ==
  { item("Then", "plus10", "wrap"), item("Then", "nil", "nil"),
    item("Then", "boom", "boom"), item("Catch", "nil", "wrap"),
    item("Catch", "nil", "retnil"), item("Finally", "ok", "nil"),
    item("Finally", "boom", "nil") }

\* Client programs: no chaining, or one call of any kind.
Programs == {<<>>} \cup {<<it>> : it \in Items}

\* The client program of TestPromise_ExecutionOrder_FIFO: n calls of Then in
\* program order.
FifoProgram(n) == [i \in 1..n |-> item("Then", "plus10", "wrap")]

\* The number of concurrent activities of a scenario: settling calls, chained
\* calls, waiters and cancellations.
Work(s) ==
  Len(s.exec) + Len(s.ext) + Len(s.prog)
    + Cardinality({j \in 1..NumAwaiters : s.aw[j] # "none"})
    + Cardinality({j \in 1..NumAwaiters : s.aw[j] = "ctx"})

\* The waiters of a scenario: each waits with its own cancellable context
\* ("ctx"), with context.Background() ("bg"), or does not run ("none"). The
\* waiters run the same code, so one assignment stands for its permutations.
AwRank(k) == CASE k = "ctx" -> 2 [] k = "bg" -> 1 [] OTHER -> 0
AwChoices ==
  {a \in [1..NumAwaiters -> {"none", "bg", "ctx"}] :
     \A j \in 1..(NumAwaiters - 1) : AwRank(a[j]) >= AwRank(a[j + 1])}

\* Every combination of at most MaxWork activities.
RaceScenarios ==
  {s \in [make : {"New"}, exec : ExecScripts, ext : ExtScripts, prog : Programs,
          aw : AwChoices, agg : {"none"}, ins : {<<>>}, mapper : {"none"}] : Work(s) <= MaxWork}
  \cup
  {s \in [make : {"Resolve", "Reject"}, exec : {<<>>}, ext : ExtScripts, prog : Programs,
          aw : AwChoices, agg : {"none"}, ins : {<<>>}, mapper : {"none"}] : Work(s) <= MaxWork}

\* TestPromise_ExecutionOrder_FIFO: Then called FifoLen times, one resolve.
FifoScenarios ==
  [make : {"New"}, exec : {<<res(1)>>}, ext : {<<>>}, prog : {FifoProgram(FifoLen)},
   aw : {[j \in 1..NumAwaiters |-> "none"]}, agg : {"none"}, ins : {<<>>}, mapper : {"none"}]

\* Two Then calls on one source, the callbacks of the first panic.
FaultProgram == <<item("Then", "boom", "boom"), item("Then", "plus10", "wrap")>>
FaultScenarios ==
  [make : {"New"}, exec : {<<res(1)>>, <<rej("e1")>>}, ext : {<<>>}, prog : {FaultProgram},
   aw : {[j \in 1..NumAwaiters |-> "none"]}, agg : {"none"}, ins : {<<>>}, mapper : {"none"}]

Scenarios == RaceScenarios \cup FifoScenarios \cup FaultScenarios

\* ------------------------------------------------------ aggregator programs
\* The value and the error of the i-th input.
InVal(i) == 20 + i
InErrs == <<"x1", "x2", "x3", "x4">>
InErr(i) == InErrs[i]

\* How an input comes to its outcome: made by the static Resolve ("F") or
\* Reject ("R"), or made by New with an executor that resolves ("res"),
\* rejects ("rej") or never settles ("pend") it.
InputKinds == {"F", "R", "res", "rej", "pend"}
InputLists == UNION {[1..n -> InputKinds] : n \in 0..NumInputs}

\* All/Any/Race/AllSettled called with zero to NumInputs promises.
AggScenarios ==
  [make : {"New"}, exec : {<<>>}, ext : {<<>>}, prog : {<<>>},
   aw : {[j \in 1..NumAwaiters |-> "none"]},
   agg : {"All", "Any", "Race", "AllSettled"}, ins : InputLists, mapper : {"none"}]

\* p.Timeout(d, msg) on a source made by New (resolving, rejecting or never
\* settling executor) or by the static Resolve/Reject.
TimeoutScenarios ==
  [make : {"New"}, exec : {<<>>, <<res(1)>>, <<rej("e1")>>}, ext : {<<>>}, prog : {<<>>},
   aw : {[j \in 1..NumAwaiters |-> "none"]}, agg : {"Timeout"}, ins : {<<>>}, mapper : {"none"}]
  \cup
  [make : {"Resolve", "Reject"}, exec : {<<>>}, ext : {<<>>}, prog : {<<>>},
   aw : {[j \in 1..NumAwaiters |-> "none"]}, agg : {"Timeout"}, ins : {<<>>}, mapper : {"none"}]

\* NewWithContext(ctx, executor) with an executor that resolves, rejects or
\* never settles, a client that may cancel ctx, and p.Await(Background).
CtxScenarios ==
  [make : {"NewWithContext"}, exec : {<<>>, <<res(1)>>, <<rej("e1")>>}, ext : {<<>>},
   prog : {<<>>}, aw : {[j \in 1..NumAwaiters |-> IF j = 1 THEN "bg" ELSE "none"]},
   agg : {"none"}, ins : {<<>>}, mapper : {"none"}]

\* Map(p, mapper) on a source made by New or by the static Resolve/Reject.
MapScenarios ==
  [make : {"New"}, exec : {<<res(1)>>, <<rej("e1")>>}, ext : {<<>>}, prog : {<<>>},
   aw : {[j \in 1..NumAwaiters |-> "none"]}, agg : {"Map"}, ins : {<<>>},
   mapper : {"ok", "fail", "boom"}]
  \cup
  [make : {"Resolve", "Reject"}, exec : {<<>>}, ext : {<<>>}, prog : {<<>>},
   aw : {[j \in 1..NumAwaiters |-> "none"]}, agg : {"Map"}, ins : {<<>>},
   mapper : {"ok", "fail", "boom"}]

\* A Rejected source, a Then or Catch whose onRejected returns nil, and Await
\* on the child.
RecoverScenarios ==
  [make : {"New"}, exec : {<<rej("e1")>>}, ext : {<<>>},
   prog : {<<item("Catch", "nil", "retnil")>>, <<item("Then", "plus10", "retnil")>>},
   aw : {[j \in 1..NumAwaiters |-> IF j = 1 THEN "child" ELSE "none"]},
   agg : {"none"}, ins : {<<>>}, mapper : {"none"}]

\* All(), Any(), Race() and AllSettled() called without promises, and
\* Await(ctx) with a cancellable context on the promise they return.
EmptyScenarios ==
  [make : {"New"}, exec : {<<>>}, ext : {<<>>}, prog : {<<>>},
   aw : {[j \in 1..NumAwaiters |-> IF j = 1 THEN "agg" ELSE "none"]},
   agg : {"All", "Any", "Race", "AllSettled"}, ins : {<<>>}, mapper : {"none"}]

CombScenarios ==
  AggScenarios \cup TimeoutScenarios \cup CtxScenarios \cup MapScenarios \cup RecoverScenarios
    \cup EmptyScenarios

\* ------------------------------------------------------------------- Init
\* The state after the client program S made its promises: P0 is made by
\* New(executor), or settled by the static Resolve(1) or Reject("e0"); the
\* inputs of an aggregator likewise; New has returned and its closure is
\* dispatched.
InputKind(i) == IF i <= Len(scen.ins) THEN scen.ins[i] ELSE "absent"
\* The promise awaiter j calls Await on: the source, the child of the
\* client's first Then/Catch call, or the promise an aggregator returned.
Awaited(j) ==
  CASE scen.aw[j] = "child" -> Child(1)
    [] scen.aw[j] = "agg" -> Cmb
    [] OTHER -> P0
Start(S) ==
  /\ scen \in S
  /\ state = [p \in Promises |->
                CASE p = P0 /\ scen.make = "Resolve" -> Fulfilled
                  [] p = P0 /\ scen.make = "Reject" -> Rejected
                  [] p \in Inputs /\ InputKind(p - In(0)) = "F" -> Fulfilled
                  [] p \in Inputs /\ InputKind(p - In(0)) = "R" -> Rejected
                  [] OTHER -> Pending]
  /\ val = [p \in Promises |->
              CASE p = P0 /\ scen.make = "Resolve" -> 1
                [] p \in Inputs /\ InputKind(p - In(0)) = "F" -> InVal(p - In(0))
                [] OTHER -> ZeroVal]
  /\ err = [p \in Promises |->
              CASE p = P0 /\ scen.make = "Reject" -> "e0"
                [] p \in Inputs /\ InputKind(p - In(0)) = "R" -> InErr(p - In(0))
                [] OTHER -> NilErr]
  /\ handlers = [p \in Promises |-> <<>>]
  /\ signal = [p \in Promises |-> "nil"]
  /\ mu = [p \in Promises |-> Free]
  /\ stack = [t \in Threads |->
       CASE t = Main -> IF scen.prog # <<>>
                          THEN <<[F0 EXCEPT !.op = IF scen.make = "Tail" THEN "tailClient"
                                                                          ELSE "client",
                                            !.i = 1]>>
                          ELSE <<>>
         [] t = Exec -> CASE scen.make = "New" /\ scen.exec # <<>> ->
                                <<[F0 EXCEPT !.op = "New", !.p = P0, !.script = scen.exec]>>
                           [] scen.make = "NewWithContext" ->
                                <<[F0 EXCEPT !.op = "NewWithContext", !.pc = "start", !.p = P0,
                                             !.ctx = PCtx, !.script = scen.exec]>>
                           [] OTHER -> <<>>
         [] t = Ext -> IF scen.ext # <<>>
                         THEN <<[F0 EXCEPT !.op = "New", !.p = P0, !.script = scen.ext]>>
                         ELSE <<>>
         [] t \in Awaiters -> IF scen.aw[t[2]] # "none"
                                THEN <<[F0 EXCEPT !.op = "waiter", !.p = Awaited(t[2]),
                                          !.ctx = IF scen.aw[t[2]] \in {"ctx", "agg"}
                                                    THEN t[2] ELSE Background]>>
                                ELSE <<>>
         [] t = Agg -> IF scen.agg # "none"
                         THEN <<[F0 EXCEPT !.op = scen.agg, !.pc = "start", !.p = Cmb]>>
                         ELSE <<>>
         [] t \in Setters ->
              CASE InputKind(t[2]) = "res" ->
                     <<[F0 EXCEPT !.op = "New", !.p = In(t[2]), !.script = <<res(InVal(t[2]))>>]>>
                [] InputKind(t[2]) = "rej" ->
                     <<[F0 EXCEPT !.op = "New", !.p = In(t[2]), !.script = <<rej(InErr(t[2]))>>]>>
                [] OTHER -> <<>>
         [] OTHER -> <<>>]
  /\ ctxDone = [c \in Contexts |-> FALSE]
  /\ order = <<>>
  /\ obs = [c \in Children |-> [cs |-> Pending, v |-> ZeroVal, e |-> NilErr]]
  /\ regd = [c \in Children |-> <<>>]
  /\ callAt = [c \in Children |-> Pending]
  /\ results = [t \in Awaiters |-> <<>>]
  /\ vals = [p \in Promises |-> <<>>]
  /\ pending = 0
  /\ doneFlag = 0
  /\ aggResults = <<>>
  /\ timerC = "idle"
  /\ settleOrder = SelectSeq([i \in 1..NumInputs |-> In(i)], LAMBDA p : state[p] # Pending)
  /\ doneBy = <<>>
  /\ timerAt = <<>>
  /\ calls = <<>>
  /\ done = "nil"
  /\ passed = <<>>
  /\ fault = <<>>
  /\ mapperCalls = <<>>
  /\ tail = NoCl

Init == Start(Scenarios)

Step(t) ==
  \/ New(t)
  \/ Resolve(t)
  \/ Reject(t)
  \/ doResolve(t)
  \/ doReject(t)
  \/ runHandlers(t)
  \/ handle(t)
  \/ handleFinally(t)
  \/ Then(t)
  \/ Finally(t)
  \/ Await(t)
  \/ Chain(t)
  \/ Waiter(t)

Next ==
  \/ \E t \in Threads : Step(t)
  \/ \E j \in 1..NumAwaiters : Cancel(j)

Spec == Init /\ [][Next]_vars

\* The Go scheduler keeps running goroutines while one of them is runnable.
\* Nothing obliges the client to cancel a context.
FairSpec == Spec /\ WF_vars(\E t \in Threads : Step(t))

\* The aggregator and Timeout programs.
CombInit == Start(CombScenarios)

CombStep(t) ==
  \/ New(t)
  \/ Resolve(t)
  \/ Reject(t)
  \/ doResolve(t)
  \/ doReject(t)
  \/ runHandlers(t)
  \/ All(t)
  \/ AnyAgg(t)
  \/ Race(t)
  \/ AllSettled(t)
  \/ handler(t)
  \/ Timeout(t)
  \/ Then(t)
  \/ timeoutHandle(t)
  \/ Map(t)
  \/ mapHandle(t)
  \/ Chain(t)
  \/ handle(t)
  \/ NewWithContext(t)
  \/ safe(t)
  \/ watch(t)
  \/ Waiter(t)
  \/ Await(t)

CombNext ==
  \/ \E t \in Threads : CombStep(t)
  \/ TimerFire
  \/ \E j \in 1..NumAwaiters : Cancel(j)

CombSpec == CombInit /\ [][CombNext]_vars

\* The Go runtime keeps running goroutines and firing timers while one of them
\* can take a step.
CombFairSpec == CombSpec /\ WF_vars(CombNext)

TypeOK ==
  /\ \A p \in Promises : state[p] \in {Pending, Fulfilled, Rejected}
  /\ \A p \in Promises : mu[p] \in {Free} \cup Threads
  /\ pending \in 0..NumInputs
  /\ doneFlag \in {0, 1}
  /\ Len(doneBy) <= 1
  /\ timerC \in {"idle", "armed", "fired", "stopped"}
  /\ Len(timerAt) <= 1

\* ================================================================ claims
\* Helpers of the claims.
Settled(p) == state[p] # Pending
Outcome(p) == IF state[p] = Fulfilled THEN <<val[p], NilErr>> ELSE <<ZeroVal, err[p]>>
Count(c) == Cardinality({i \in DOMAIN order : order[i].c = c})
Called(i) == i <= Len(scen.prog) /\ (stack[Main] = <<>> \/ stack[Main][1].i > i)
InAwait(t) == \E k \in DOMAIN stack[t] : stack[t][k].op = "Await"

\* C1: exactly-once settlement. Once the state of a promise has left Pending,
\* no step of any interleaving of Resolve and Reject calls changes its state,
\* its value or its error again.
C1_ExactlyOnce ==
  [][\A p \in Promises :
       state[p] # Pending =>
         state'[p] = state[p] /\ val'[p] = val[p] /\ err'[p] = err[p]]_vars

\* C1 witness: a Reject that passed the lock-free check while P0 was Pending
\* reaches the lock after a Resolve fulfilled P0.
C1_Witness ==
  \E t \in Threads :
    /\ At(t, "doReject", "lock")
    /\ Top(t).p = P0
    /\ state[P0] = Fulfilled
    /\ mu[P0] = Free

\* C3: no handler duplication. The handle of every child is registered at most
\* once (queued, or run directly) and invoked at most once.
C3_NoDuplication ==
  \A c \in Children : Len(regd[c]) <= 1 /\ Count(c) <= 1

\* C3 witness: a registration that raced with the settlement (it saw Pending
\* on the lock-free check and a settled source under the lock) has run once.
C3_Witness ==
  \E c \in Children : regd[c] = <<"direct-slow">> /\ Count(c) = 1

\* C4: FIFO order. Three Then calls A, B, C made in program order while P0 is
\* Pending, P0 settled afterwards: the handles run in the order A, B, C.
C4_FifoOrder ==
  ( /\ scen.prog = FifoProgram(FifoLen)
    /\ \A i \in 1..FifoLen : Called(i) /\ callAt[Child(i)] = Pending
    /\ Len(order) = FifoLen )
  => \A i \in 1..FifoLen : order[i].c = Child(i)

C5_AwaitLiveness ==
  /\ \A t \in Awaiters : (InAwait(t) /\ Settled(P0)) ~> ~InAwait(t)
  /\ [](\A t \in Awaiters : \A k \in DOMAIN results[t] :
          results[t][k].via # "cancel" =>
            /\ Settled(P0)
            /\ <<results[t][k].v, results[t][k].e>> = Outcome(P0))

\* C5 witness: two waiters that blocked on the signal while P0 was Pending
\* were both woken by the settlement and returned the value.
C5_Witness ==
  /\ state[P0] = Fulfilled
  /\ \A t \in {Aw(1), Aw(2)} :
       /\ Len(results[t]) = 1
       /\ results[t][1].via = "signal"
       /\ results[t][1].at0 = Pending
       /\ results[t][1].v = val[P0]
       /\ results[t][1].e = NilErr

\* C6: cancelling an Await only detaches the waiter. The step on which Await
\* returns its context's error changes neither the state, the value, the error
\* nor the handler list of any promise, and the Await the waiter calls next
\* returns the settlement of P0.
C6_CancelDetaches ==
  /\ [][\A t \in Awaiters :
          ( /\ Len(results'[t]) = Len(results[t]) + 1
            /\ results'[t][Len(results'[t])].via = "cancel" )
          => UNCHANGED <<state, val, err, handlers>>]_vars
  /\ [](\A t \in Awaiters :
          Len(results[t]) = 2 =>
            /\ results[t][2].via # "cancel"
            /\ Settled(P0)
            /\ <<results[t][2].v, results[t][2].e>> = Outcome(P0))

\* C6 witness: an Await returned context.Canceled while P0 was Pending with a
\* handle queued; P0 was fulfilled later and the next Await returned its value.
C6_Witness ==
  \E t \in Awaiters :
    /\ Len(results[t]) = 2
    /\ results[t][1].via = "cancel"
    /\ results[t][1].e = ctxCanceled
    /\ results[t][1].st = Pending
    /\ state[P0] = Fulfilled
    /\ results[t][2].v = val[P0]
    /\ results[t][2].e = NilErr

\* C7: executor fault containment. When the executor of New panics before it
\* calls resolve or reject and nobody else settles P0, P0 is never Fulfilled,
\* it is Rejected once the executor's goroutine has ended, with the error
\* "panic: boom" for panic("boom") and the error itself for a panic with an
\* error value, and an Await that was not cancelled returns that error.
C7_ExecutorPanic ==
  ( /\ scen.make = "New"
    /\ scen.exec # <<>>
    /\ scen.exec[1].k = "panic"
    /\ scen.ext = <<>> )
  => LET r == scen.exec[1].r
         want == IF r.isErr THEN r.s ELSE "panic: boom"
     IN /\ state[P0] # Fulfilled
        /\ stack[Exec] = <<>> => state[P0] = Rejected
        /\ state[P0] = Rejected => err[P0] = want
        /\ \A t \in Awaiters : \A k \in DOMAIN results[t] :
             results[t][k].via # "cancel" =>
               results[t][k].v = ZeroVal /\ results[t][k].e = want

\* C7 witness: the executor panicked with "boom" and a waiter that blocked on
\* the signal has returned "panic: boom".
C7_Witness ==
  /\ scen.exec # <<>>
  /\ scen.exec[1].k = "panic"
  /\ scen.ext = <<>>
  /\ stack[Exec] = <<>>
  /\ \E t \in Awaiters :
       /\ Len(results[t]) = 1
       /\ results[t][1].via = "signal"
       /\ results[t][1].e = "panic: boom"

\* C8 as stated: when Then or Finally is called on a settled P0, the handle has
\* run by the time the call has returned.
C8_LateIsSynchronous ==
  \A i \in 1..MaxRegs :
    (Called(i) /\ callAt[Child(i)] # Pending) => Count(Child(i)) >= 1

\* C8 as amended: when Then or Finally is called on a settled P0, the handle is
\* never queued on the handler list; it is run on the lock-free fast path,
\* once, by the goroutine the dispatcher started for the child's executor, and
\* it has run when that goroutine has ended.
C8_LateRunsInExecutor ==
  \A i \in 1..MaxRegs :
    (Called(i) /\ callAt[Child(i)] # Pending) =>
      /\ regd[Child(i)] \in {<<>>, <<"direct-fast">>}
      /\ \A k \in DOMAIN handlers[P0] : handlers[P0][k].child # Child(i)
      /\ \A k \in DOMAIN order : order[k].c = Child(i) => order[k].t = Reg(i)
      /\ Count(Child(i)) <= 1
      /\ stack[Reg(i)] = <<>> => Count(Child(i)) = 1

\* C8 witness: Then was called on a settled P0 and the handle has been run by
\* the goroutine of the child's executor.
C8_Witness ==
  \E i \in 1..MaxRegs :
    /\ Called(i)
    /\ callAt[Child(i)] # Pending
    /\ regd[Child(i)] = <<"direct-fast">>
    /\ \E k \in DOMAIN order : order[k].c = Child(i) /\ order[k].t = Reg(i)
    /\ stack[Reg(i)] = <<>>

\* C9: Await on a settled promise. An Await called when P0 is settled never
\* reaches the lock or the select, whatever its context, and returns (v, nil)
\* for a Fulfilled P0 and (zero, e) for a Rejected P0.
C9_AwaitSettled ==
  /\ \A t \in Awaiters : \A k \in DOMAIN stack[t] :
       (stack[t][k].op = "Await" /\ stack[t][k].at0 # Pending) =>
         stack[t][k].pc \in {"fast", "readval", "readerr"}
  /\ \A t \in Awaiters : \A k \in DOMAIN results[t] :
       results[t][k].at0 # Pending =>
         /\ results[t][k].via = "fast"
         /\ results[t][k].at0 = GetState(P0)
         /\ results[t][k].at0 = Fulfilled =>
              results[t][k].v = val[P0] /\ results[t][k].e = NilErr
         /\ results[t][k].at0 = Rejected =>
              results[t][k].v = ZeroVal /\ results[t][k].e = err[P0]

\* C9 witness: an Await on a Rejected P0 whose context was already cancelled
\* returned the error of P0.
C9_Witness ==
  \E t \in Awaiters :
    /\ Len(results[t]) = 1
    /\ results[t][1].at0 = Rejected
    /\ results[t][1].cd
    /\ results[t][1].e = err[P0]
    /\ err[P0] # NilErr

\* C10: the result of Then and Catch. A child settles only after P0, and when
\* the callback that is called returns: P0 Fulfilled with v gives Fulfilled
\* with onFulfilled(v), or with v when onFulfilled is nil; P0 Rejected with e
\* gives Rejected with onRejected(e), or with e when onRejected is nil. Catch(fn)
\* is Then(nil, fn).
C10_ThenResult ==
  \A i \in 1..MaxRegs :
    (i <= Len(scen.prog) /\ scen.prog[i].m \in {"Then", "Catch"} /\ Settled(Child(i))) =>
      LET it == scen.prog[i]
          c == Child(i)
          onF == IF it.m = "Catch" THEN "nil" ELSE it.onF
      IN /\ Settled(P0)
         /\ (state[P0] = Fulfilled /\ onF = "nil") =>
              state[c] = Fulfilled /\ val[c] = val[P0]
         /\ (state[P0] = Fulfilled /\ onF = "plus10") =>
              state[c] = Fulfilled /\ val[c] = val[P0] + 10
         /\ (state[P0] = Rejected /\ it.onR = "nil") =>
              state[c] = Rejected /\ err[c] = err[P0]
         /\ (state[P0] = Rejected /\ it.onR = "wrap") =>
              state[c] = Rejected /\ err[c] = "wrap(" \o err[P0] \o ")"
         /\ (state[P0] = Rejected /\ it.onR = "retnil") =>
              state[c] = Rejected /\ err[c] = NilErr

\* C10 witness: the child of Catch(fn) on a Rejected P0 is Rejected with fn(e).
C10_Witness ==
  \E i \in 1..MaxRegs :
    /\ i <= Len(scen.prog)
    /\ scen.prog[i].m = "Catch"
    /\ scen.prog[i].onR = "wrap"
    /\ state[P0] = Rejected
    /\ state[Child(i)] = Rejected
    /\ err[Child(i)] = "wrap(" \o err[P0] \o ")"

\* Helpers: the callback of the i-th chained call that the outcome of P0
\* selects, and whether any goroutine still works for promise c.
Selected(i) ==
  LET it == scen.prog[i]
  IN CASE it.m = "Finally" -> "finally"
       [] state[P0] = Fulfilled -> (IF it.m = "Catch" THEN "nil" ELSE it.onF)
       [] state[P0] = Rejected -> it.onR
       [] OTHER -> "none"
Busy(c) ==
  \E t \in Threads : \E k \in DOMAIN stack[t] :
    \/ stack[t][k].cl.child = c
    \/ stack[t][k].op \in {"Resolve", "Reject", "doResolve", "doReject"} /\ stack[t][k].p = c
    \/ \E n \in DOMAIN stack[t][k].hs : stack[t][k].hs[n].child = c

\* C11: callback fault in Then/Catch. When the callback that the outcome of P0
\* selects panics, the child is never Fulfilled, it is Rejected with
\* "panic: boom" once its handle has run to its end, and the goroutine that ran
\* the handle goes on: when all goroutines have ended every registered handle
\* has been invoked and every child is settled.
C11_CallbackFault ==
  /\ \A i \in 1..MaxRegs :
       (i <= Len(scen.prog) /\ scen.prog[i].m \in {"Then", "Catch"} /\ Selected(i) = "boom") =>
         /\ state[Child(i)] # Fulfilled
         /\ state[Child(i)] = Rejected => err[Child(i)] = "panic: boom"
         /\ (Count(Child(i)) >= 1 /\ ~Busy(Child(i))) => state[Child(i)] = Rejected
  /\ (\A t \in Threads : stack[t] = <<>>) =>
       \A i \in 1..MaxRegs :
         (i <= Len(scen.prog) /\ Settled(P0)) => Count(Child(i)) = 1 /\ Settled(Child(i))

\* C11 witness: the goroutine that fulfilled P0 ran the handle whose callback
\* panicked and, after it, the handle of the other child; the first child is
\* Rejected with "panic: boom", the second is Fulfilled.
C11_Witness ==
  /\ scen.prog = FaultProgram
  /\ regd[Child(1)] = <<"queued">> /\ regd[Child(2)] = <<"queued">>
  /\ Len(order) = 2
  /\ order[1] = [c |-> Child(1), t |-> Exec]
  /\ order[2] = [c |-> Child(2), t |-> Exec]
  /\ state[Child(1)] = Rejected /\ err[Child(1)] = "panic: boom"
  /\ state[Child(2)] = Fulfilled /\ val[Child(2)] = val[P0] + 10

\* C12: Finally. onFinally is invoked at most once, and exactly once when P0 is
\* settled and all goroutines have ended; the child settles only after P0, with
\* the state, value and error of P0 when onFinally returns, and Rejected with
\* the fault of onFinally when it panics, whatever the outcome of P0.
C12_Finally ==
  \A i \in 1..MaxRegs :
    (i <= Len(scen.prog) /\ scen.prog[i].m = "Finally") =>
      LET c == Child(i)
      IN /\ Count(c) <= 1
         /\ (Settled(P0) /\ \A t \in Threads : stack[t] = <<>>) =>
              Count(c) = 1 /\ Settled(c)
         /\ Settled(c) =>
              /\ Settled(P0)
              /\ Count(c) = 1
              /\ scen.prog[i].onF = "ok" =>
                   state[c] = state[P0] /\ val[c] = val[P0] /\ err[c] = err[P0]
              /\ scen.prog[i].onF = "boom" =>
                   state[c] = Rejected /\ err[c] = "finally failed" /\ val[c] = ZeroVal

\* C12 witness: P0 was Rejected with another error, onFinally panicked, and the
\* child is Rejected with the fault of onFinally.
C12_Witness ==
  \E i \in 1..MaxRegs :
    /\ i <= Len(scen.prog)
    /\ scen.prog[i].m = "Finally"
    /\ scen.prog[i].onF = "boom"
    /\ state[P0] = Rejected
    /\ err[P0] \notin {NilErr, "finally failed"}
    /\ state[Child(i)] = Rejected
    /\ err[Child(i)] = "finally failed"

\* Helpers: the values and the errors that the settling calls of the client
\* program pass for P0.
Steps(script) == {script[k] : k \in DOMAIN script}
SourceValues ==
  {st.v : st \in {x \in Steps(scen.exec) \cup Steps(scen.ext) : x.k = "res"}}
    \cup (IF scen.make = "Resolve" THEN {1} ELSE {})
SourceErrors ==
  {st.e : st \in {x \in Steps(scen.exec) \cup Steps(scen.ext) : x.k = "rej"}}
    \cup {handlePanicErr(st.r) : st \in {x \in Steps(scen.exec) : x.k = "panic"}}
    \cup (IF scen.make = "Reject" THEN {"e0"} ELSE {})
ChainOps == {"client", "Then", "Finally", "handle", "handleFinally", "runHandlers"}

C14_ContinuationFirst ==
  \A t \in Awaiters : \A k \in DOMAIN results[t] : \A i \in 1..MaxRegs :
    ( /\ i <= Len(scen.prog)
      /\ scen.prog[i].m = "Then"
      /\ regd[Child(i)] = <<"queued">>
      /\ results[t][k].via = "signal" )
    => Child(i) \in results[t][k].ran

\* Every goroutine of the program has returned.
Quiet == \A t \in Threads : stack[t] = <<>>
\* The inputs of the aggregator call, in argument order.
Ins == {In(i) : i \in 1..Len(scen.ins)}

\* C15: All, success. The promise returned by All is Fulfilled only when every
\* input is Fulfilled, and its value then holds the inputs' values in input
\* order whatever the order in which they settled; once every input is
\* Fulfilled and all goroutines have returned it is Fulfilled; with zero inputs
\* it is Fulfilled with an empty slice.
C15_AllSuccess ==
  scen.agg = "All" =>
    /\ state[Cmb] = Fulfilled =>
         /\ \A p \in Ins : state[p] = Fulfilled
         /\ vals[Cmb] = [i \in 1..Len(scen.ins) |-> val[In(i)]]
    /\ (Quiet /\ \A p \in Ins : state[p] = Fulfilled) =>
         state[Cmb] = Fulfilled
    /\ (Quiet /\ scen.ins = <<>>) => (state[Cmb] = Fulfilled /\ vals[Cmb] = <<>>)

\* Two inputs that settled in the reverse of their argument order, and All
\* Fulfilled with their values in argument order.
C15_Witness ==
  /\ scen.agg = "All"
  /\ scen.ins = <<"res", "res">>
  /\ settleOrder = <<In(2), In(1)>>
  /\ doneBy = <<1>>
  /\ state[Cmb] = Fulfilled
  /\ vals[Cmb] = <<InVal(1), InVal(2)>>

\* C16: All, failure. When an input of All is Rejected, the returned promise
\* is Rejected with the error of the first rejection its handlers met (the one
\* that took doneFlag), also while other inputs are still Pending; it is
\* Rejected once all goroutines have returned; and the inputs that settle
\* afterwards change nothing of it.
C16_AllFailure ==
  /\ [](scen.agg = "All" =>
          /\ state[Cmb] = Rejected =>
               /\ doneBy # <<>>
               /\ state[In(doneBy[1])] = Rejected
               /\ err[Cmb] = err[In(doneBy[1])]
          /\ (Quiet /\ \E p \in Ins : state[p] = Rejected) => state[Cmb] = Rejected)
  /\ [][(scen.agg = "All" /\ state[Cmb] = Rejected) =>
          /\ state'[Cmb] = Rejected
          /\ err'[Cmb] = err[Cmb]
          /\ vals'[Cmb] = vals[Cmb]]_vars

\* All is Rejected with the error of its second input while the first input is
\* still Pending.
C16_Witness ==
  /\ scen.agg = "All"
  /\ scen.ins = <<"res", "rej">>
  /\ state[In(1)] = Pending
  /\ state[Cmb] = Rejected
  /\ err[Cmb] = InErr(2)

\* C17 as stated: Any resolves with the value of the first input to become
\* Fulfilled (an input Fulfilled before the call precedes those that settle
\* later); it is Rejected with an aggregate error if and only if every input is
\* Rejected, zero inputs included; while no input is Fulfilled and one is
\* Pending it stays Pending.
C17_AnyFirstFulfilled ==
  LET early == {i \in 1..Len(scen.ins) : scen.ins[i] = "F"}
      late == {k \in 1..Len(settleOrder) :
                 /\ state[settleOrder[k]] = Fulfilled
                 /\ \A j \in 1..(k - 1) : state[settleOrder[j]] # Fulfilled}
      first == IF early # {} THEN {val[In(i)] : i \in early}
                              ELSE {val[settleOrder[k]] : k \in late}
  IN scen.agg = "Any" =>
       /\ state[Cmb] = Fulfilled => val[Cmb] \in first
       /\ state[Cmb] = Rejected =>
            /\ \A p \in Ins : state[p] = Rejected
            /\ err[Cmb] = IF scen.ins = <<>> THEN NoPromisesMsg ELSE AllRejectedMsg
       /\ (Quiet /\ \A p \in Ins : state[p] = Rejected) => state[Cmb] = Rejected
       /\ ((\A p \in Ins : state[p] # Fulfilled) /\ \E p \in Ins : state[p] = Pending) =>
            state[Cmb] = Pending

\* C17, amended: Any resolves with the value of a Fulfilled input, the one
\* whose handler took successFlag first, and it is Fulfilled once an input is
\* Fulfilled and all goroutines have returned; it is Rejected with an aggregate
\* error if and only if every input is Rejected, zero inputs included; while no
\* input is Fulfilled and one is Pending it stays Pending.
C17_AnyFlagWinner ==
  scen.agg = "Any" =>
    /\ state[Cmb] = Fulfilled =>
         /\ doneBy # <<>>
         /\ state[In(doneBy[1])] = Fulfilled
         /\ val[Cmb] = val[In(doneBy[1])]
    /\ (Quiet /\ \E p \in Ins : state[p] = Fulfilled) => state[Cmb] = Fulfilled
    /\ state[Cmb] = Rejected =>
         /\ \A p \in Ins : state[p] = Rejected
         /\ err[Cmb] = IF scen.ins = <<>> THEN NoPromisesMsg ELSE AllRejectedMsg
    /\ (Quiet /\ \A p \in Ins : state[p] = Rejected) => state[Cmb] = Rejected
    /\ ((\A p \in Ins : state[p] # Fulfilled) /\ \E p \in Ins : state[p] = Pending) =>
         state[Cmb] = Pending

\* The first input became Fulfilled first, and Any is Fulfilled with the value
\* of the second, whose handler took successFlag.
C17_Witness ==
  /\ scen.agg = "Any"
  /\ scen.ins = <<"res", "res">>
  /\ settleOrder = <<In(1), In(2)>>
  /\ doneBy = <<2>>
  /\ state[Cmb] = Fulfilled
  /\ val[Cmb] = InVal(2)

C19_AllSettled ==
  scen.agg = "AllSettled" =>
    /\ state[Cmb] # Rejected
    /\ (\E p \in Ins : state[p] = Pending) => state[Cmb] = Pending
    /\ (Quiet /\ \A p \in Ins : Settled(p)) => state[Cmb] = Fulfilled
    /\ state[Cmb] = Fulfilled =>
         vals[Cmb] = [i \in 1..Len(scen.ins) |->
                        IF state[In(i)] = Fulfilled
                          THEN [Status |-> Fulfilled, Value |-> val[In(i)], Reason |-> NilErr]
                          ELSE [Status |-> Rejected, Value |-> ZeroVal, Reason |-> err[In(i)]]]

\* The second input was Fulfilled before the first was Rejected, and AllSettled
\* is Fulfilled with the two records in input order.
C19_Witness ==
  /\ scen.agg = "AllSettled"
  /\ scen.ins = <<"rej", "res">>
  /\ settleOrder = <<In(2), In(1)>>
  /\ state[Cmb] = Fulfilled
  /\ vals[Cmb] = <<[Status |-> Rejected, Value |-> ZeroVal, Reason |-> InErr(1)],
                   [Status |-> Fulfilled, Value |-> InVal(2), Reason |-> NilErr]>>

\* C20: Timeout, source first. The promise returned by p.Timeout(d, msg) is
\* Rejected with the timeout error only if the timer fired while p was Pending,
\* and when p settled before the timer fired the returned promise settles with
\* the value or the error of p.
C20_TimeoutSourceFirst ==
  scen.agg = "Timeout" =>
    /\ (state[Cmb] = Rejected /\ err[Cmb] = TimeoutMsg) =>
         (timerAt # <<>> /\ timerAt[1] = Pending)
    /\ (Settled(Cmb) /\ Settled(P0) /\ (timerAt = <<>> \/ timerAt[1] # Pending)) =>
         Outcome(Cmb) = Outcome(P0)

C22_ContextCancel ==
  (/\ scen.make = "NewWithContext"
   /\ ctxDone[PCtx]
   /\ \A k \in DOMAIN passed : passed[k].t = Exec => passed[k].at = "cancelled") =>
    /\ Settled(P0) => (state[P0] = Rejected /\ err[P0] = ctxCanceled)
    /\ \A k \in DOMAIN results[Aw(1)] :
         /\ results[Aw(1)][k].v = ZeroVal
         /\ results[Aw(1)][k].e = ctxCanceled

\* C25: NewWithContext, single-use guard. Of the cancellation path and the
\* executor's call at most one goes past the guard, whatever the interleaving,
\* the settlement is made by that path, and nobody closes the closed guard
\* channel (no panic, neither in the executor nor in the watcher goroutine).
C25_SingleUseGuard ==
  scen.make = "NewWithContext" =>
    /\ Len(passed) <= 1
    /\ fault = <<>>
    /\ (Settled(P0) /\ passed # <<>>) =>
         IF passed[1].t = Watch
           THEN state[P0] = Rejected /\ err[P0] = ctxCanceled
           ELSE Outcome(P0) = (IF scen.exec[1].k = "res" THEN <<scen.exec[1].v, NilErr>>
                                                         ELSE <<ZeroVal, scen.exec[1].e>>)

\* C23: Map. The promise returned by Map is Fulfilled only for a Fulfilled
\* source and a mapper that returned (r, nil), with the value r; for a mapper
\* that returned an error it is Rejected with that error and never Fulfilled;
\* for a Rejected source the mapper is not called and the promise is Rejected
\* with the source's error. The mapper is called at most once, with the
\* source's value, and when it returns the promise of Map is settled once all
\* goroutines have returned.
C23_Map ==
  scen.agg = "Map" =>
    /\ state[Cmb] = Fulfilled =>
         /\ state[P0] = Fulfilled
         /\ scen.mapper = "ok"
         /\ val[Cmb] = val[P0] + 100
    /\ state[Cmb] = Rejected =>
         \/ state[P0] = Rejected /\ err[Cmb] = err[P0]
         \/ state[P0] = Fulfilled /\ scen.mapper = "fail" /\ err[Cmb] = "mapper failed"
    /\ state[P0] = Rejected => mapperCalls = <<>>
    /\ mapperCalls \in {<<>>, <<val[P0]>>}
    /\ (Quiet /\ Settled(P0) /\ scen.mapper # "boom") => Settled(Cmb)
    /\ (Quiet /\ state[P0] = Rejected) => Settled(Cmb)

\* The mapper returned an error for the value of the Fulfilled source, and the
\* promise of Map is Rejected with it.
C23_Witness ==
  /\ scen.agg = "Map"
  /\ scen.mapper = "fail"
  /\ state[P0] = Fulfilled
  /\ mapperCalls = <<1>>
  /\ state[Cmb] = Rejected
  /\ err[Cmb] = "mapper failed"

\* C26: no promise is left Pending by a callback fault. When the mapper of Map
\* panics for a Fulfilled source, the promise returned by Map is Rejected with
\* the fault once all goroutines have returned.
C26_MapperFault ==
  (scen.agg = "Map" /\ scen.mapper = "boom" /\ state[P0] = Fulfilled /\ Quiet) =>
    (state[Cmb] = Rejected /\ err[Cmb] = handlePanicErr([isErr |-> FALSE, s |-> "boom"]))

\* C24: an error always surfaces through Await. Whenever Await returns for a
\* promise whose state is Rejected, the error it returns is not nil, also for
\* the child of a Then or Catch whose onRejected callback returned nil.
C24_ErrorSurfaces ==
  \A t \in Awaiters : \A k \in DOMAIN results[t] :
    results[t][k].st = Rejected => results[t][k].e # NilErr

\* C27: single terminal settlement in aggregators. All, Any, Race and
\* AllSettled call the resolve or the reject of the promise they return at most
\* once in total, whatever the interleaving of their handlers; they call it only
\* when the completion condition is met, and when it is met and all goroutines
\* have returned they have called it exactly once.
C27_SingleSettlement ==
  LET complete ==
        CASE scen.agg = "All" ->
               (\A p \in Ins : state[p] = Fulfilled) \/ (\E p \in Ins : state[p] = Rejected)
          [] scen.agg = "Any" ->
               (\E p \in Ins : state[p] = Fulfilled) \/ (\A p \in Ins : state[p] = Rejected)
          [] scen.agg = "Race" -> \E p \in Ins : Settled(p)
          [] OTHER -> \A p \in Ins : Settled(p)
  IN scen.agg \in {"All", "Any", "Race", "AllSettled"} =>
       /\ Len(calls) <= 1
       /\ calls # <<>> => complete
       /\ (Quiet /\ complete) => Len(calls) = 1

\* Race has called resolve for one input while the handler of the other input,
\* running in another goroutine, is about to try the flag.
C27_Witness ==
  /\ scen.agg = "Race"
  /\ scen.ins = <<"res", "res">>
  /\ calls = <<"Resolve">>
  /\ \E t \in Setters : Running(t, "handler")

\* The frames in which a handler body of p executes.
Bodies == {"handle", "handleFinally", "handler", "timeoutHandle", "mapHandle"}
InBody(t, p) == \E k \in DOMAIN stack[t] : stack[t][k].op \in Bodies /\ stack[t][k].cl.src = p

TailScenarios ==
  [make : {"Tail"}, exec : {<<>>}, ext : {<<>>},
   prog : UNION {[1..n -> {"Then", "Finally", "Attach"}] : n \in 1..MaxOps},
   aw : {[j \in 1..NumAwaiters |-> "none"]}, agg : {"none"}, ins : {<<>>},
   mapper : {"none"}]

\* The node made by the i-th call.
TailNode(i) == [NoCl EXCEPT !.kind = scen.prog[i], !.src = P0, !.child = i]

\* The i-th call of the client, under the lock of P0. Then/Finally: if
\* p.handlers == nil { p.handlers = node; p.handlersTail = node } else
\* { p.handlersTail.next = node; p.handlersTail = node }, where the store
\* through a nil handlersTail is a nil pointer dereference that ends the
\* program. An aggregator: node.next = target.handlers; target.handlers = node.
TailRegister(t) ==
  LET f == Top(t)
      node == TailNode(f.i)
      list == handlers[P0]
      k == CHOOSE j \in DOMAIN list : list[j] = tail
      nilTail == scen.prog[f.i] # "Attach" /\ list # <<>> /\ tail = NoCl
  IN /\ Running(t, "tailClient")
     /\ mu[P0] = Free
     /\ handlers' = [handlers EXCEPT ![P0] =
           CASE scen.prog[f.i] = "Attach" -> Insert(node, list)
             [] scen.prog[f.i] # "Attach" /\ list = <<>> -> <<node>>
             [] nilTail -> list
             [] OTHER -> Append(SubSeq(list, 1, k), node)]
     /\ tail' = IF scen.prog[f.i] = "Attach" \/ nilTail THEN tail ELSE node
     /\ fault' = IF nilTail THEN Append(fault, t) ELSE fault
     /\ stack' = IF nilTail \/ f.i = Len(scen.prog)
                   THEN [stack EXCEPT ![t] = <<>>]
                   ELSE SetTop(t, [f EXCEPT !.i = @ + 1])
     /\ UNCHANGED <<state, val, err, signal, mu, vals, ctxDone, scen, pending, doneFlag,
                    aggResults, timerC, doneBy, timerAt, calls, done, passed, mapperCalls,
                    settleOrder, histVars>>

\* doResolve of the tail-insertion version: store the value and the state,
\* h := p.handlers; p.handlers = nil; p.handlersTail = nil; unlock;
\* p.runHandlers(h).
TailSettle(t) ==
  /\ t = Exec
  /\ scen.make = "Tail"
  /\ stack[Main] = <<>>
  /\ fault = <<>>
  /\ state[P0] = Pending
  /\ mu[P0] = Free
  /\ state' = [state EXCEPT ![P0] = Fulfilled]
  /\ val' = [val EXCEPT ![P0] = 1]
  /\ handlers' = [handlers EXCEPT ![P0] = <<>>]
  /\ tail' = NoCl
  /\ stack' = [stack EXCEPT ![t] =
       IF handlers[P0] = <<>> THEN <<>>
       ELSE <<[F0 EXCEPT !.op = "tailRun", !.p = P0, !.hs = handlers[P0], !.i = 1]>>]
  /\ UNCHANGED <<err, signal, mu, vals, ctxDone, scen, pending, doneFlag, aggResults, timerC,
                 doneBy, timerAt, calls, done, passed, fault, mapperCalls, settleOrder,
                 histVars>>

\* runHandlers: fn() of every node of the detached chain, following next.
TailRun(t) ==
  LET f == Top(t)
  IN /\ Running(t, "tailRun")
     /\ order' = Append(order, [c |-> f.hs[f.i].child, t |-> t])
     /\ stack' = IF f.i < Len(f.hs) THEN SetTop(t, [f EXCEPT !.i = @ + 1]) ELSE Pop(t)
     /\ UNCHANGED <<promiseVars, vals, ctxDone, scen, aggVars, settleOrder, obs, regd, callAt,
                    results>>

TailNext == \E t \in Threads : TailRegister(t) \/ TailSettle(t) \/ TailRun(t)

TailSpec == Start(TailScenarios) /\ [][TailNext]_vars

\* C29: handler-list well-formedness under mixed registration. On the pending
\* promise, after any sequence of Then/Finally registrations (tail append) and
\* aggregator attachments (head insertion), handlersTail is nil exactly when
\* the list is empty and otherwise designates the last node; no registration
\* faults; and at settlement every registered handler is invoked exactly once.
C29_TailWellFormed ==
  scen.make = "Tail" =>
    /\ fault = <<>>
    /\ state[P0] = Pending =>
         IF handlers[P0] = <<>> THEN tail = NoCl
                                ELSE tail = handlers[P0][Len(handlers[P0])]
    /\ (state[P0] # Pending /\ stack[Exec] = <<>>) =>
         \A i \in 1..Len(scen.prog) : Count(i) = 1

C31_FaultIsolation ==
  /\ [](\A c \in Children : Count(c) <= 1)
  /\ [](\A i \in 1..MaxRegs :
          (/\ i <= Len(scen.prog)
           /\ Settled(Child(i))
           /\ Selected(i) \notin {"boom", "finally"}
           /\ err[P0] # "panic: boom") => err[Child(i)] # "panic: boom")
  /\ (Settled(P0) /\ \E i \in 1..MaxRegs : i <= Len(scen.prog) /\ Selected(i) = "boom")
       ~> (/\ \A t \in Threads : stack[t] = <<>>
           /\ \A i \in 1..MaxRegs :
                i <= Len(scen.prog) => Count(Child(i)) = 1 /\ Settled(Child(i)))

\* C31 witness: both continuations were queued on the pending P0, the goroutine
\* that rejected P0 ran the one whose onRejected panics first and the other one
\* after it, and has returned.
C31_Witness ==
  /\ scen.prog = FaultProgram
  /\ state[P0] = Rejected
  /\ regd[Child(1)] = <<"queued">> /\ regd[Child(2)] = <<"queued">>
  /\ order = <<[c |-> Child(1), t |-> Exec], [c |-> Child(2), t |-> Exec]>>
  /\ err[Child(1)] = "panic: boom"
  /\ state[Child(2)] = Rejected /\ err[Child(2)] # "panic: boom"
  /\ stack[Exec] = <<>>

\* C32: the value is published before the state. Whenever the state of P0 reads
\* Fulfilled its value is already the one passed to the settling call, and
\* whenever it reads Rejected its error is; neither changes afterwards; so a
\* waiter that saw a settled state on the lock-free fast path of Await, even
\* while the settling goroutine is still inside its critical section, returns
\* the final outcome and never the unset zero value or a nil error.
C32_ValueBeforeState ==
  /\ [](/\ state[P0] = Fulfilled => val[P0] \in SourceValues /\ val[P0] # ZeroVal
        /\ state[P0] = Rejected => err[P0] \in SourceErrors /\ err[P0] # NilErr
        /\ \A t \in Awaiters : \A k \in DOMAIN results[t] :
             results[t][k].via = "fast" =>
               /\ <<results[t][k].v, results[t][k].e>> = Outcome(P0)
               /\ results[t][k].v # ZeroVal \/ results[t][k].e # NilErr)
  /\ [][\A p \in Promises :
          state[p] # Pending => val'[p] = val[p] /\ err'[p] = err[p]]_vars

\* C32 witness: a waiter has seen Fulfilled on the fast path and is about to
\* read the value while the settling goroutine still holds the mutex, before
\* it detaches the list.
C32_Witness ==
  \E t \in Awaiters : \E u \in Threads :
    /\ At(t, "Await", "readval")
    /\ Top(t).via = "fast"
    /\ mu[P0] = u
    /\ At(u, "doResolve", "detach")
    /\ val[P0] \in SourceValues

\* C33: Race with zero inputs never settles. The promise returned by Race()
\* without promises is Pending in every reachable state and an Await on it
\* returns only the error of its cancelled context; All() and AllSettled() are
\* Fulfilled with an empty slice and Any() is Rejected with "no promises" as
\* soon as their executor has run.
C33_RaceEmptyNeverSettles ==
  /\ (scen.agg = "Race" /\ scen.ins = <<>>) =>
       /\ state[Cmb] = Pending
       /\ \A t \in Awaiters : \A k \in DOMAIN results[t] :
            /\ results[t][k].via = "cancel"
            /\ results[t][k].e = ctxCanceled
            /\ results[t][k].cd
  /\ (scen.agg \in {"All", "AllSettled"} /\ scen.ins = <<>> /\ stack[Agg] = <<>>) =>
       state[Cmb] = Fulfilled /\ vals[Cmb] = <<>>
  /\ (scen.agg = "Any" /\ scen.ins = <<>> /\ stack[Agg] = <<>>) =>
       state[Cmb] = Rejected /\ err[Cmb] = NoPromisesMsg

\* C33 witness: the executor of Race() has ended, the waiter's context was
\* cancelled while it was blocked on the signal, and Await returned
\* context.Canceled with the promise still Pending.
C33_Witness ==
  /\ scen.agg = "Race" /\ scen.ins = <<>>
  /\ stack[Agg] = <<>>
  /\ signal[Cmb] = "open"
  /\ Len(results[Aw(1)]) = 1
  /\ results[Aw(1)][1].via = "cancel"
  /\ results[Aw(1)][1].st = Pending
  /\ state[Cmb] = Pending

====
